---- MODULE Spec2Model ----
(***************************************************************************)
(* FimPay screen layer: the verify-email screen, the AI chat screen, the   *)
(* sign-in form and the sign-up form, each modelled as the React state of  *)
(* the screen plus the remote calls its handlers have in flight.           *)
(*                                                                         *)
(* Strings whose content the code inspects (codes, e-mails, passwords,     *)
(* chat input, error messages) are sequences of one-character strings, so  *)
(* that replace / slice / trim / includes / regex tests are computed.      *)
(* Strings the code only passes through (alert texts, canned replies) are  *)
(* TLA+ strings copied verbatim from the source.                           *)
(***************************************************************************)
EXTENDS Integers, Sequences, FiniteSets, TLC

VARIABLES
    clerk,          \* identity-provider snapshot seen by useSignUp / useSignIn
    verifyScreen,   \* useState cells of VerifyEmailScreen
    verifyEnv,      \* remote calls of VerifyEmailScreen: in flight and issued
    aiScreen,       \* useState cells of AIScreen
    aiEnv,          \* the chat call in flight, the clock, the close animation
    signInScreen,   \* useState cells of SignInScreen
    signInEnv,      \* the sign-in call in flight and the calls issued
    signUpScreen,   \* useState cells of SignUpScreen
    signUpEnv,      \* the sign-up calls in flight and the calls issued
    profileScreen,  \* useState cells of ProfileScreen
    profileEnv,     \* the session, the signOut calls, the close animation
    alert,          \* the Alert.alert currently shown, or NoAlert
    route,          \* the route the router last navigated to
    typed,          \* raw text last handed to each filtered onChangeText
    ev              \* the handler invocation the last step was, or NoEvent

vars ==
    <<clerk, verifyScreen, verifyEnv, aiScreen, aiEnv, signInScreen, signInEnv,
      signUpScreen, signUpEnv, profileScreen, profileEnv, alert, route,
      typed, ev>>

sharedVars == <<clerk, alert, route, typed>>

verifyVars == <<verifyScreen, verifyEnv>>

aiVars == <<aiScreen, aiEnv>>

signInVars == <<signInScreen, signInEnv>>

signUpVars == <<signUpScreen, signUpEnv>>

profileVars == <<profileScreen, profileEnv>>

----------------------------------------------------------------------------
(* Bounds of the model                                                     *)

MaxCalls == 1       \* remote calls of one handler issued in a behaviour

MaxResends == 2     \* prepareEmailAddressVerification calls of a resend

MaxSends == 1       \* chat messages accepted in a behaviour

MaxSignOuts == 2    \* signOut calls issued in a behaviour

MaxClock == 11      \* last clock reading of a behaviour

\* chat sends followed when message ids are compared
MaxIdSends == 2

----------------------------------------------------------------------------
(* Strings as character sequences                                          *)

Digits == {"0", "1", "2", "3", "4", "5", "6", "7", "8", "9"}

\* characters \s matches and trim removes
Whitespace == {" ", "\t"}

SeqsUpTo(S, n) == UNION {[1..k -> S] : k \in 0..n}

Min(a, b) == IF a < b THEN a ELSE b

\* String.prototype.slice(a, b) for 0 <= a <= b
Slice(s, a, b) == SubSeq(s, a + 1, Min(b, Len(s)))

IsDigit(c) == c \in Digits

IsSpace(c) == c \in Whitespace

RECURSIVE TrimStart(_)
TrimStart(s) ==
    IF s # <<>> /\ IsSpace(Head(s)) THEN TrimStart(Tail(s)) ELSE s

RECURSIVE TrimEnd(_)
TrimEnd(s) ==
    IF s # <<>> /\ IsSpace(s[Len(s)]) THEN TrimEnd(SubSeq(s, 1, Len(s) - 1)) ELSE s

\* String.prototype.trim
Trim(s) == TrimEnd(TrimStart(s))

\* String.prototype.includes
Includes(s, sub) ==
    \E i \in 0..(Len(s) - Len(sub)) : \A k \in 1..Len(sub) : s[i + k] = sub[k]

\* the pattern ^[0-9]{6}$
MatchesSixDigits(s) == Len(s) = 6 /\ \A i \in 1..Len(s) : IsDigit(s[i])

----------------------------------------------------------------------------
(* Values                                                                  *)

NoAlert == [title |-> "", message |-> ""]

NoEvent == [op |-> "none"]

ShowAlert(title, message) == [title |-> title, message |-> message]

\* signUp as useSignUp returns it: undefined until the provider has loaded,
\* afterwards a resource whose status is null or one of the three statuses
SignUpStatuses == {"null", "missing_requirements", "abandoned", "complete"}

\* statuses attemptEmailAddressVerification can resolve with
AttemptStatuses == {"missing_requirements", "abandoned", "complete"}

CodeMaxLength == 6

\* characters the code field can be handed: a digit, a letter, a space
CodeAlphabet == {"7", "a", " "}

\* texts pasted into the code field (cut to maxLength by the field)
PastedCodes ==
    { <<"7", "7", "7", "7", "7", "7">>,
      <<"7", "7", "a", "7", "7", "7">>,
      <<" ", "7", "7", "7", "7", "7">>,
      <<"a", "a", "a", "a", "a", "a">> }

\* the spelling of the messages whose text the code searches
Chars(m) ==
    CASE m = "" -> <<>>
      [] m = "already verified" ->
            <<"a","l","r","e","a","d","y"," ","v","e","r","i","f","i","e","d">>
      [] m = "expired" -> <<"e","x","p","i","r","e","d">>
      [] m = "Failed to create session" ->
            <<"F","a","i","l","e","d"," ","t","o"," ","c","r","e","a","t","e",
              " ","s","e","s","s","i","o","n">>
      [] m = "Verification failed with status: missing_requirements" ->
            <<"V","e","r","i","f","i","c","a","t","i","o","n"," ","f","a","i",
              "l","e","d"," ","w","i","t","h"," ","s","t","a","t","u","s",":",
              " ","m","i","s","s","i","n","g","_","r","e","q","u","i","r","e",
              "m","e","n","t","s">>
      [] m = "Verification failed with status: abandoned" ->
            <<"V","e","r","i","f","i","c","a","t","i","o","n"," ","f","a","i",
              "l","e","d"," ","w","i","t","h"," ","s","t","a","t","u","s",":",
              " ","a","b","a","n","d","o","n","e","d">>
      [] m = "Email is already verified" ->
            <<"E","m","a","i","l"," ","i","s"," ","a","l","r","e","a","d","y",
              " ","v","e","r","i","f","i","e","d">>
      [] m = "Code has expired" ->
            <<"C","o","d","e"," ","h","a","s"," ","e","x","p","i","r","e","d">>
      [] m = "email" -> <<"e","m","a","i","l">>
      [] m = "cancelled" ->
            <<"c","a","n","c","e","l","l","e","d">>
      [] m = "user_cancelled" ->
            <<"u","s","e","r","_","c","a","n","c","e","l","l","e","d">>
      [] m = "The OAuth flow was cancelled" ->
            <<"T","h","e"," ","O","A","u","t","h"," ","f","l","o","w"," ",
              "w","a","s"," ","c","a","n","c","e","l","l","e","d">>
      [] m = "Google sign in incomplete" ->
            <<"G","o","o","g","l","e"," ","s","i","g","n"," ","i","n"," ",
              "i","n","c","o","m","p","l","e","t","e">>
      [] m = "Microsoft sign in incomplete" ->
            <<"M","i","c","r","o","s","o","f","t"," ","s","i","g","n"," ",
              "i","n"," ","i","n","c","o","m","p","l","e","t","e">>
      [] m = "Google sign up incomplete" ->
            <<"G","o","o","g","l","e"," ","s","i","g","n"," ","u","p"," ",
              "i","n","c","o","m","p","l","e","t","e">>
      [] m = "Microsoft sign up incomplete" ->
            <<"M","i","c","r","o","s","o","f","t"," ","s","i","g","n"," ",
              "u","p"," ","i","n","c","o","m","p","l","e","t","e">>
      [] m = "email_address is invalid" ->
            <<"e","m","a","i","l","_","a","d","d","r","e","s","s"," ","i","s",
              " ","i","n","v","a","l","i","d">>
      [] m = "provider message" ->
            <<"p","r","o","v","i","d","e","r"," ","m","e","s","s","a","g","e">>
      [] m = "Network request failed" ->
            <<"N","e","t","w","o","r","k"," ","r","e","q","u","e","s","t"," ",
              "f","a","i","l","e","d">>

\* err.message.includes(needle)
MessageIncludes(m, needle) == Includes(Chars(m), Chars(needle))

\* a thrown provider error: { errors: [...] } with the fields of its first
\* entry ("" is an absent or empty field), or a plain Error
ClerkErrorCodes ==
    {"form_code_incorrect", "form_code_expired", "verification_failed",
     "form_identifier_exists", "session_exists", ""}

ClerkErrors ==
    [kind : {"clerk"}, empty : {FALSE}, code : ClerkErrorCodes,
     message : {"", "provider message"},
     longMessage : {"", "provider long message"}]
    \cup
    {[kind |-> "clerk", empty |-> TRUE, code |-> "", message |-> "",
      longMessage |-> ""]}

PlainError(m) == [kind |-> "error", message |-> m]

ProviderPlainErrors ==
    {PlainError(m) : m \in {"Email is already verified", "Code has expired",
                            "Network request failed"}}

ProviderErrors == ClerkErrors \cup ProviderPlainErrors

\* JavaScript a || b on strings
OrElse(a, b) == IF a # "" THEN a ELSE b

\* the message of a thrown value ("" where it has none)
ErrorText(err) == IF err.kind = "error" THEN err.message ELSE ""

\* what is recorded of a remote call that has settled: the flow it belongs
\* to, the call, whether it resolved or rejected, the status it resolved
\* with and the message of the Error it rejected with
CallEvent(flow, call, how, status, message) ==
    [op |-> "callSettled", flow |-> flow, call |-> call, how |-> how,
     status |-> status, message |-> message]

\* messages of the Error an OAuth flow rejects with when the user closes it
OAuthCancelMessages == {"user_cancelled", "The OAuth flow was cancelled"}

OAuthErrors ==
    ProviderErrors \cup {PlainError(m) : m \in OAuthCancelMessages}

OAuthProviders == {"Google", "Microsoft"}

----------------------------------------------------------------------------
(* VerifyEmailScreen                                                       *)

SignUpPresent == clerk.signUpStatus # "undefined"

\* the view VerifyEmailScreen returns
VerifyView ==
    IF ~clerk.isLoaded THEN "loading"
    ELSE IF ~SignUpPresent \/ clerk.signUpStatus = "complete" THEN "issue"
    ELSE "form"

VerifyButtonDisabled ==
    \/ verifyScreen.code = <<>>
    \/ Len(verifyScreen.code) # 6
    \/ verifyScreen.isLoading

\* a Resend button that stays enabled while a resend is in flight
ResendButtonDisabledCooldownOnly ==
    verifyScreen.resendCooldown > 0

ResendButtonDisabled ==
    verifyScreen.isResending \/ verifyScreen.resendCooldown > 0

\* the provider finishes loading; the sign-up resource becomes available
ClerkLoaded ==
    /\ ~clerk.isLoaded
    /\ \E st \in SignUpStatuses :
          clerk' = [isLoaded |-> TRUE, signUpStatus |-> st]
    /\ ev' = NoEvent
    /\ UNCHANGED <<verifyScreen, verifyEnv, alert, route, typed>>

\* a filter that cuts the text to six characters but keeps non-digits
CodeFilterKeepsAll(text) == Slice(text, 0, 6)

\* the filter applied to the text of the code field
CodeFilter(text) == Slice(SelectSeq(text, IsDigit), 0, 6)

\* an onChangeText that keeps the status of the last attempt
CodeOnChangeTextKeepsStatus(text) ==
    /\ verifyScreen' = [verifyScreen EXCEPT !.code = CodeFilter(text)]
    /\ typed' = [typed EXCEPT !.code = text]
    /\ ev' = NoEvent
    /\ UNCHANGED <<clerk, verifyEnv, alert, route>>
\* onChangeText of the code field
CodeOnChangeText(text) ==
    /\ verifyScreen' = [verifyScreen EXCEPT
                           !.code = CodeFilter(text),
                           !.verificationStatus = "pending"]
    /\ typed' = [typed EXCEPT !.code = text]
    /\ ev' = NoEvent
    /\ UNCHANGED <<clerk, verifyEnv, alert, route>>

\* what an edit of the field showing value can hand to onChangeText: one
\* more character, the last character deleted, or a pasted text, never more
\* than maxLength characters
FieldEdits(value, alphabet, pasted, maxLength) ==
    {Append(value, c) : c \in IF Len(value) < maxLength THEN alphabet ELSE {}}
    \cup {SubSeq(value, 1, Len(value) - 1) : x \in IF value # <<>> THEN {0} ELSE {}}
    \cup {Slice(t, 0, maxLength) : t \in pasted}

\* the code field of the form; not editable while a verification is in flight
TypeCode ==
    /\ VerifyView = "form"
    /\ ~verifyScreen.isLoading
    /\ \E text \in FieldEdits(verifyScreen.code, CodeAlphabet, PastedCodes,
                              CodeMaxLength) :
          CodeOnChangeText(text)

\* what is recorded of an invocation: the state it ran in
VerifyEvent(op) ==
    [op |-> op,
     typed |-> typed.code,
     code |-> verifyScreen.code,
     isLoaded |-> clerk.isLoaded,
     status |-> clerk.signUpStatus,
     isLoading |-> verifyScreen.isLoading,
     callsBefore |-> verifyEnv.attemptCalls]

VerifyReject(message) ==
    /\ alert' = ShowAlert("Error", message)
    /\ ev' = VerifyEvent("handleVerify")
    /\ UNCHANGED <<clerk, verifyScreen, verifyEnv, route, typed>>

\* handleVerify up to its first await
handleVerify ==
    /\ verifyEnv.attemptCalls < MaxCalls
    /\ IF ~clerk.isLoaded \/ ~SignUpPresent
       THEN VerifyReject("System not ready. Please try signing up again.")
       ELSE IF clerk.signUpStatus # "missing_requirements"
       THEN VerifyReject("Cannot verify email at this time. Please try signing up again.")
       ELSE IF Trim(verifyScreen.code) = <<>>
       THEN VerifyReject("Please enter the verification code")
       ELSE IF Len(verifyScreen.code) # 6
       THEN VerifyReject("Verification code must be exactly 6 digits")
       ELSE /\ verifyScreen' = [verifyScreen EXCEPT !.isLoading = TRUE]
            /\ verifyEnv' = [verifyEnv EXCEPT
                                !.attempting = @ + 1,
                                !.attemptCalls = @ + 1]
            /\ ev' = VerifyEvent("handleVerify")
            /\ UNCHANGED <<clerk, alert, route, typed>>

\* a press on the Verify button of the form: dropped while it is disabled
PressVerify ==
    /\ VerifyView = "form"
    /\ IF VerifyButtonDisabled
       THEN /\ ev' = VerifyEvent("pressVerifyDisabled")
            /\ UNCHANGED <<clerk, verifyScreen, verifyEnv, alert, route, typed>>
       ELSE handleVerify

\* a catch block in which the provider's own message wins over the table
VerifyErrorMessageProviderFirst(err) ==
    LET default ==
           "Failed to verify email. Please check the code and try again."
        byCode ==
           CASE err.code = "form_code_incorrect" ->
                   "The verification code is incorrect. Please check and try again."
             [] err.code = "form_code_expired" ->
                   "The verification code has expired. Please request a new one."
             [] err.code = "verification_failed" ->
                   "Verification failed. The code may be invalid or expired."
             [] err.code = "form_identifier_exists" ->
                   "This email is already registered. Please sign in instead."
             [] OTHER -> default
    IN IF err.kind = "clerk"
       THEN IF err.empty
            THEN default
            ELSE OrElse(err.longMessage, OrElse(err.message, byCode))
       ELSE IF MessageIncludes(err.message, "already verified")
            THEN "This email is already verified. Please sign in instead."
            ELSE IF MessageIncludes(err.message, "expired")
            THEN "The verification code has expired. Please request a new one."
            ELSE err.message
\* the alert text handleVerify derives from what it caught
VerifyErrorMessage(err) ==
    IF err.kind = "clerk"
    THEN IF err.empty
         THEN "Failed to verify email. Please check the code and try again."
         ELSE CASE err.code = "form_code_incorrect" ->
                     "The verification code is incorrect. Please check and try again."
                [] err.code = "form_code_expired" ->
                     "The verification code has expired. Please request a new one."
                [] err.code = "verification_failed" ->
                     "Verification failed. The code may be invalid or expired."
                [] err.code = "form_identifier_exists" ->
                     "This email is already registered. Please sign in instead."
                [] OTHER ->
                     OrElse(err.longMessage,
                        OrElse(err.message,
                           "Failed to verify email. Please check the code and try again."))
    ELSE IF MessageIncludes(err.message, "already verified")
         THEN "This email is already verified. Please sign in instead."
         ELSE IF MessageIncludes(err.message, "expired")
         THEN "The verification code has expired. Please request a new one."
         ELSE err.message

\* a catch block that leaves the status as the try block set it
VerifyCatchKeepsStatus(err) ==
    /\ verifyScreen' = [verifyScreen EXCEPT !.isLoading = FALSE]
    /\ alert' = ShowAlert("Verification Failed", VerifyErrorMessage(err))
\* the catch and finally blocks of handleVerify
VerifyCatch(err) ==
    /\ verifyScreen' = [verifyScreen EXCEPT
                           !.verificationStatus = "failed",
                           !.isLoading = FALSE]
    /\ alert' = ShowAlert("Verification Failed", VerifyErrorMessage(err))

\* attemptEmailAddressVerification resolves with the updated sign-up
AttemptResolves(status, hasSessionId) ==
    /\ verifyEnv.attempting > 0
    /\ clerk' = [clerk EXCEPT !.signUpStatus = status]
    /\ IF status = "complete"
       THEN IF hasSessionId
            THEN /\ verifyScreen' = [verifyScreen EXCEPT
                                        !.verificationStatus = "verified"]
                 /\ verifyEnv' = [verifyEnv EXCEPT
                                     !.attempting = @ - 1,
                                     !.activating = @ + 1]
                 /\ UNCHANGED alert
            ELSE /\ VerifyCatch(PlainError("Failed to create session"))
                 /\ verifyEnv' = [verifyEnv EXCEPT !.attempting = @ - 1]
       ELSE /\ VerifyCatch(PlainError(
                  IF status = "abandoned"
                  THEN "Verification failed with status: abandoned"
                  ELSE "Verification failed with status: missing_requirements"))
            /\ verifyEnv' = [verifyEnv EXCEPT !.attempting = @ - 1]
    /\ ev' = CallEvent("verify", "attemptEmailAddressVerification",
                       "resolved",
                       IF status = "complete" /\ ~hasSessionId
                       THEN "complete, no session"
                       ELSE status,
                       "")
    /\ UNCHANGED <<route, typed>>

AttemptRejects(err) ==
    /\ verifyEnv.attempting > 0
    /\ VerifyCatch(err)
    /\ verifyEnv' = [verifyEnv EXCEPT !.attempting = @ - 1]
    /\ ev' = CallEvent("verify", "attemptEmailAddressVerification",
                       "rejected", "", ErrorText(err)) @@ [err |-> err]
    /\ UNCHANGED <<clerk, route, typed>>

\* setActive resolves: the success alert, then the finally block
ActivateResolves ==
    /\ verifyEnv.activating > 0
    /\ verifyEnv' = [verifyEnv EXCEPT !.activating = @ - 1]
    /\ verifyScreen' = [verifyScreen EXCEPT !.isLoading = FALSE]
    /\ alert' = ShowAlert("Success!",
          "Your email has been verified successfully! Welcome to FimPay.")
    /\ ev' = CallEvent("verify", "setActive", "resolved", "", "")
    /\ UNCHANGED <<clerk, route, typed>>

ActivateRejects(err) ==
    /\ verifyEnv.activating > 0
    /\ verifyEnv' = [verifyEnv EXCEPT !.activating = @ - 1]
    /\ VerifyCatch(err)
    /\ ev' = CallEvent("verify", "setActive", "rejected", "",
                       ErrorText(err)) @@ [err |-> err]
    /\ UNCHANGED <<clerk, route, typed>>

\* a button that leaves for the tabs from whatever alert is shown
PressGetStartedAnyAlert ==
    /\ alert # NoAlert
    /\ route' = "/(tabs)"
    /\ alert' = NoAlert
    /\ ev' = [op |-> "pressGetStarted"]
    /\ UNCHANGED <<clerk, verifyScreen, verifyEnv, typed>>
\* the 'Get Started' button of the success alert
PressGetStarted ==
    /\ alert.title = "Success!"
    /\ route' = "/(tabs)"
    /\ alert' = NoAlert
    /\ ev' = [op |-> "pressGetStarted"]
    /\ UNCHANGED <<clerk, verifyScreen, verifyEnv, typed>>

\* the OK button of any other alert
DismissAlert ==
    /\ alert # NoAlert
    /\ alert.title # "Success!"
    /\ alert' = NoAlert
    /\ ev' = NoEvent
    /\ UNCHANGED <<clerk, verifyScreen, verifyEnv, route, typed>>

ResendEvent(op) ==
    [op |-> op,
     cooldown |-> verifyScreen.resendCooldown,
     isResending |-> verifyScreen.isResending,
     callsBefore |-> verifyEnv.prepareCalls]

\* handleResendCode up to its await
handleResendCode ==
    /\ verifyEnv.prepareCalls < MaxResends
    /\ IF ~clerk.isLoaded \/ ~SignUpPresent \/ verifyScreen.resendCooldown > 0
       THEN /\ ev' = ResendEvent("handleResendCode")
            /\ UNCHANGED <<clerk, verifyScreen, verifyEnv, alert, route, typed>>
       ELSE IF clerk.signUpStatus = "complete"
       THEN /\ alert' = ShowAlert("Already Verified",
                  "Your email is already verified. Please sign in instead.")
            /\ ev' = ResendEvent("handleResendCode")
            /\ UNCHANGED <<clerk, verifyScreen, verifyEnv, route, typed>>
       ELSE /\ verifyScreen' = [verifyScreen EXCEPT !.isResending = TRUE]
            /\ verifyEnv' = [verifyEnv EXCEPT
                                !.resending = @ + 1,
                                !.prepareCalls = @ + 1]
            /\ ev' = ResendEvent("handleResendCode")
            /\ UNCHANGED <<clerk, alert, route, typed>>

\* a press on 'Resend Code': dropped while it is disabled
PressResend ==
    /\ VerifyView = "form"
    /\ IF ResendButtonDisabled
       THEN /\ ev' = ResendEvent("pressResendDisabled")
            /\ UNCHANGED <<clerk, verifyScreen, verifyEnv, alert, route, typed>>
       ELSE handleResendCode

\* a success path that forgets to arm the cooldown
ResendResolvesUnarmed ==
    /\ verifyEnv.resending > 0
    /\ verifyEnv' = [verifyEnv EXCEPT !.resending = @ - 1]
    /\ verifyScreen' = [verifyScreen EXCEPT !.isResending = FALSE]
    /\ alert' = ShowAlert("Code Sent!",
          "A new verification code has been sent. Please check your inbox and spam folder.")
    /\ ev' = ResendEvent("resendResolved")
    /\ UNCHANGED <<clerk, route, typed>>

\* prepareEmailAddressVerification resolves
ResendResolves ==
    /\ verifyEnv.resending > 0
    /\ verifyEnv' = [verifyEnv EXCEPT !.resending = @ - 1]
    /\ verifyScreen' = [verifyScreen EXCEPT
                           !.resendCooldown = 30,
                           !.isResending = FALSE]
    /\ alert' = ShowAlert("Code Sent!",
          "A new verification code has been sent. Please check your inbox and spam folder.")
    /\ ev' = ResendEvent("resendResolved")
    /\ UNCHANGED <<clerk, route, typed>>

\* the alert text handleResendCode derives from what it caught
ResendErrorMessage(err) ==
    IF err.kind = "clerk"
    THEN IF ~err.empty /\ err.code = "form_identifier_exists"
         THEN "This email is already registered and verified. Please sign in instead."
         ELSE OrElse(err.message,
                 "Failed to resend verification code. Please try again.")
    ELSE err.message

ResendRejects(err) ==
    /\ verifyEnv.resending > 0
    /\ verifyEnv' = [verifyEnv EXCEPT !.resending = @ - 1]
    /\ verifyScreen' = [verifyScreen EXCEPT !.isResending = FALSE]
    /\ alert' = ShowAlert("Resend Failed", ResendErrorMessage(err))
    /\ ev' = CallEvent("resend", "prepareEmailAddressVerification",
                       "rejected", "", ErrorText(err))
    /\ UNCHANGED <<clerk, route, typed>>

\* one firing of the interval the cooldown effect keeps while cooldown > 0
CooldownTick ==
    /\ verifyScreen.resendCooldown > 0
    /\ verifyScreen' = [verifyScreen EXCEPT !.resendCooldown = @ - 1]
    /\ ev' = ResendEvent("tick")
    /\ UNCHANGED <<clerk, verifyEnv, alert, route, typed>>

\* the screen as it mounts
VerifyScreenInit ==
    /\ verifyScreen = [code |-> <<>>,
                       isLoading |-> FALSE,
                       isResending |-> FALSE,
                       resendCooldown |-> 0,
                       verificationStatus |-> "pending"]
    /\ verifyEnv = [attempting |-> 0, activating |-> 0, resending |-> 0,
                    attemptCalls |-> 0, prepareCalls |-> 0]

VerifyInit ==
    /\ clerk = [isLoaded |-> FALSE, signUpStatus |-> "undefined"]
    /\ VerifyScreenInit
    /\ alert = NoAlert
    /\ route = "/verify-email"
    /\ typed = [code |-> <<>>, signInEmail |-> <<>>, signInPassword |-> <<>>,
                signUpEmail |-> <<>>, signUpPassword |-> <<>>]
    /\ ev = NoEvent

\* what Date.now() reads when the screens mount; far above the greeting's id
ClockStart == 10

GreetingText == "Hello User ! I'm your AI assistant. How can I help you today?"

\* the seeded greeting record, created at clock reading t
Greeting(t) ==
    [id |-> 1, text |-> GreetingText, isUser |-> FALSE, timestamp |-> t]

AiInit ==
    /\ aiScreen = [messages |-> <<Greeting(ClockStart)>>,
                   inputText |-> <<>>,
                   isLoading |-> FALSE,
                   settingsVisible |-> FALSE,
                   clearChatVisible |-> FALSE]
    /\ aiEnv = [now |-> ClockStart,
                fetch |-> [state |-> "idle"],
                timer |-> FALSE,
                closing |-> FALSE,
                posts |-> 0]

SignInInit ==
    /\ signInScreen = [email |-> <<>>, password |-> <<>>, isLoading |-> FALSE]
    /\ signInEnv = [call |-> "idle", createCalls |-> 0, activateCalls |-> 0,
                    identifier |-> <<>>, password |-> <<>>,
                    oauthCalls |-> 0, provider |-> ""]

SignUpInit ==
    /\ signUpScreen = [firstName |-> <<>>, lastName |-> <<>>, email |-> <<>>,
                       password |-> <<>>, isLoading |-> FALSE]
    /\ signUpEnv = [call |-> "idle", createCalls |-> 0, prepareCalls |-> 0,
                    emailAddress |-> <<>>, password |-> <<>>,
                    oauthCalls |-> 0, activateCalls |-> 0, provider |-> "",
                    pushed |-> FALSE, pushedEmail |-> <<>>]

ProfileInit ==
    /\ profileScreen = [settingsVisible |-> FALSE,
                        deleteAccountVisible |-> FALSE]
    /\ profileEnv = [isSignedIn |-> TRUE, closing |-> FALSE,
                     signOutCalls |-> 0, handled |-> 0, bare |-> 0]

Init ==
    /\ VerifyInit
    /\ AiInit
    /\ SignInInit
    /\ SignUpInit
    /\ ProfileInit

VerifyCallCompletions ==
    \/ \E st \in AttemptStatuses, sid \in BOOLEAN : AttemptResolves(st, sid)
    \/ \E err \in ProviderErrors : AttemptRejects(err)
    \/ ActivateResolves
    \/ \E err \in ProviderErrors : ActivateRejects(err)
    \/ PressGetStarted
    \/ DismissAlert

ResendCompletions ==
    \/ ResendResolves
    \/ \E err \in ProviderErrors : ResendRejects(err)
    \/ CooldownTick

\* the screen as the user drives it: presses go through the buttons
NextVerify ==
    /\ \/ ClerkLoaded
       \/ TypeCode
       \/ PressVerify
       \/ PressResend
       \/ VerifyCallCompletions
       \/ ResendCompletions
    /\ UNCHANGED <<aiVars, signInVars, signUpVars, profileVars>>

SpecVerify == Init /\ [][NextVerify]_vars

\* handleVerify invoked in any state of the screen, whatever the button shows
NextVerifyHandler ==
    /\ \/ ClerkLoaded
       \/ TypeCode
       \/ handleVerify
       \/ VerifyCallCompletions
    /\ UNCHANGED <<aiVars, signInVars, signUpVars, profileVars>>

SpecVerifyHandler == Init /\ [][NextVerifyHandler]_vars

----------------------------------------------------------------------------
(* AIScreen                                                                *)

\* the texts fetchAIResponse searches for and the messages it searches in
StrTimeout ==
    <<"t", "i", "m", "e", "o", "u", "t">>

StrAbort ==
    <<"a", "b", "o", "r", "t">>

StrNetworkRequestFailed ==
    <<"N", "e", "t", "w", "o", "r", "k", " ", "r", "e", "q", "u", "e", "s",
    "t", " ", "f", "a", "i", "l", "e", "d">>

StrFetch ==
    <<"f", "e", "t", "c", "h">>

StrFailedToFetch ==
    <<"F", "a", "i", "l", "e", "d", " ", "t", "o", " ", "f", "e", "t", "c",
    "h">>

StrAborted ==
    <<"A", "b", "o", "r", "t", "e", "d">>

StrOperationAborted ==
    <<"T", "h", "i", "s", " ", "o", "p", "e", "r", "a", "t", "i", "o", "n",
    " ", "w", "a", "s", " ", "a", "b", "o", "r", "t", "e", "d">>

StrNetworkTimedOut ==
    <<"N", "e", "t", "w", "o", "r", "k", " ", "r", "e", "q", "u", "e", "s",
    "t", " ", "t", "i", "m", "e", "d", " ", "o", "u", "t">>

StrJsonParseError ==
    <<"J", "S", "O", "N", " ", "P", "a", "r", "s", "e", " ", "e", "r", "r",
    "o", "r", ":", " ", "U", "n", "r", "e", "c", "o", "g", "n", "i", "z",
    "e", "d", " ", "t", "o", "k", "e", "n", " ", "'", "<", "'">>

StrNullProperty ==
    <<"C", "a", "n", "n", "o", "t", " ", "r", "e", "a", "d", " ", "p", "r",
    "o", "p", "e", "r", "t", "y", " ", "'", "r", "e", "p", "l", "y", "'",
    " ", "o", "f", " ", "n", "u", "l", "l">>

StrApiReturnedStatus ==
    <<"A", "P", "I", " ", "r", "e", "t", "u", "r", "n", "e", "d", " ", "s",
    "t", "a", "t", "u", "s", " ">>

StrColonSpace ==
    <<":", " ">>

StrNotFound ==
    <<"N", "o", "t", " ", "F", "o", "u", "n", "d">>

StrUpstreamTimeout ==
    <<"u", "p", "s", "t", "r", "e", "a", "m", " ", "t", "i", "m", "e", "o",
    "u", "t">>

StrCouldNotFetch ==
    <<"c", "o", "u", "l", "d", " ", "n", "o", "t", " ", "f", "e", "t", "c",
    "h", " ", "u", "s", "e", "r">>

\* Number.prototype.toString for a natural number
RECURSIVE DecimalDigits(_)
DecimalDigits(n) ==
    LET d == <<"0", "1", "2", "3", "4", "5", "6", "7", "8", "9">>[(n % 10) + 1]
    IN IF n < 10 THEN <<d>> ELSE Append(DecimalDigits(n \div 10), d)

\* the canned replies of fetchAIResponse
AuthReply ==
    "I'm having trouble authenticating with the AI service. Please check your API configuration."

TooManyRequestsReply ==
    "I'm receiving too many requests right now. Please wait a moment and try again."

ServiceIssuesReply ==
    "The AI service is currently experiencing issues. Please try again later."

FormatReply ==
    "I received your message but couldn't process the response format."

TimeoutReply ==
    "The request took too long to complete. Please try again in a moment."

NetworkReply ==
    "I'm having trouble connecting to the network. Please check your internet connection and try again."

FetchFailedReply ==
    "I couldn't reach the AI service. Please check your API endpoint and try again."

ApologyReply ==
    "I apologize, but I'm having trouble processing your request right now. Please try again in a moment."

\* HTTP statuses the endpoint answers with
Statuses == {200, 201, 400, 401, 404, 429, 500, 503}

\* response.ok
StatusOk(status) == status >= 200 /\ status <= 299

\* response.text() of an error response
ErrorBodies == {<<>>, StrNotFound, StrUpstreamTimeout, StrCouldNotFetch}

\* response.json() of a success response: an object with some of the reply
\* fields ("" is an absent or empty field), a bare string, null, or a body
\* that is not JSON
DataObjects ==
    [kind : {"object"},
     reply : {"", "reply text"},
     message : {"", "message text"},
     output : {"", "output text"},
     choiceText : {"", "choice text"},
     choiceMessage : BOOLEAN,
     choiceContent : {"", "content text"},
     response : {"", "response text"}]

DataBodies ==
    {d \in DataObjects : d.choiceContent # "" => d.choiceMessage}
    \cup {[kind |-> "string", value |-> "plain text"],
          [kind |-> "null"],
          [kind |-> "invalid"]}

\* an error as the catch block sees it: its name and its message
\* (hasMessage FALSE: message undefined)
Thrown(name, message) ==
    [name |-> name, hasMessage |-> TRUE, message |-> message]

AbortErrors ==
    {Thrown("AbortError", StrAborted), Thrown("AbortError", StrOperationAborted)}

\* what fetch rejects with when the request fails
FetchErrors ==
    {Thrown("TypeError", StrNetworkRequestFailed),
     Thrown("TypeError", StrFailedToFetch),
     Thrown("TypeError", StrNetworkTimedOut),
     [name |-> "Error", hasMessage |-> FALSE, message |-> <<>>]}

\* how a chat call ends: an HTTP response, a rejected fetch, or the
\* timeout aborting it
FetchOutcomes ==
    {[kind |-> "http", status |-> st, body |-> b] :
        st \in {x \in Statuses : ~StatusOk(x)}, b \in ErrorBodies}
    \cup {[kind |-> "http", status |-> st, body |-> b] :
        st \in {x \in Statuses : StatusOk(x)}, b \in DataBodies}
    \cup {[kind |-> "reject", err |-> e] : e \in FetchErrors}
    \cup {[kind |-> "abort", err |-> e] : e \in AbortErrors}

\* err.message?.includes(needle)
ErrIncludes(err, needle) == err.hasMessage /\ Includes(err.message, needle)

\* a catch block that classifies by the message only
ThrownReplyByMessage(err) ==
    IF ErrIncludes(err, StrTimeout) \/ ErrIncludes(err, StrAbort)
    THEN TimeoutReply
    ELSE IF \/ ErrIncludes(err, StrNetworkRequestFailed)
            \/ ErrIncludes(err, StrFetch)
    THEN NetworkReply
    ELSE IF ErrIncludes(err, StrFailedToFetch)
    THEN FetchFailedReply
    ELSE ApologyReply

\* the catch block of fetchAIResponse
ThrownReply(err) ==
    IF \/ err.name = "AbortError"
       \/ ErrIncludes(err, StrTimeout)
       \/ ErrIncludes(err, StrAbort)
    THEN TimeoutReply
    ELSE IF \/ ErrIncludes(err, StrNetworkRequestFailed)
            \/ ErrIncludes(err, StrFetch)
    THEN NetworkReply
    ELSE IF ErrIncludes(err, StrFailedToFetch)
    THEN FetchFailedReply
    ELSE ApologyReply

\* an extraction that gives no text when no field is recognised
DataReplyNoFallback(data) ==
    IF data.kind = "string" THEN data.value
    ELSE IF data.reply # "" THEN data.reply
    ELSE IF data.message # "" THEN data.message
    ELSE IF data.output # "" THEN data.output
    ELSE IF data.choiceText # "" THEN data.choiceText
    ELSE IF data.choiceMessage THEN data.choiceContent
    ELSE data.response

\* the reply extracted from the parsed body of a success response
DataReply(data) ==
    IF data.kind = "string" THEN data.value
    ELSE IF data.reply # "" THEN data.reply
    ELSE IF data.message # "" THEN data.message
    ELSE IF data.output # "" THEN data.output
    ELSE IF data.choiceText # "" THEN data.choiceText
    ELSE IF data.choiceMessage THEN data.choiceContent
    ELSE IF data.response # "" THEN data.response
    ELSE FormatReply

\* new Error(`API returned status ${response.status}: ${errorText}`)
ApiStatusError(status, errorText) ==
    Thrown("Error",
           StrApiReturnedStatus \o DecimalDigits(status) \o StrColonSpace
              \o errorText)

\* a status mapping whose server-error branch starts above 500
ErrorStatusReplyAbove500(status, errorText) ==
    IF status = 401 THEN AuthReply
    ELSE IF status = 429 THEN TooManyRequestsReply
    ELSE IF status > 500 THEN ServiceIssuesReply
    ELSE ThrownReply(ApiStatusError(status, errorText))

\* the !response.ok branch of fetchAIResponse
ErrorStatusReply(status, errorText) ==
    IF status = 401 THEN AuthReply
    ELSE IF status = 429 THEN TooManyRequestsReply
    ELSE IF status >= 500 THEN ServiceIssuesReply
    ELSE ThrownReply(ApiStatusError(status, errorText))

\* what fetchAIResponse returns for each way the call can end
FetchReply(outcome) ==
    IF outcome.kind = "http"
    THEN IF ~StatusOk(outcome.status)
         THEN ErrorStatusReply(outcome.status, outcome.body)
         ELSE IF outcome.body.kind = "invalid"
         THEN ThrownReply(Thrown("SyntaxError", StrJsonParseError))
         ELSE IF outcome.body.kind = "null"
         THEN ThrownReply(Thrown("TypeError", StrNullProperty))
         ELSE DataReply(outcome.body)
    ELSE ThrownReply(outcome.err)

\* the main view is covered while a modal is shown
AiMainViewUsable == ~aiScreen.settingsVisible /\ ~aiScreen.clearChatVisible

\* texts the chat input is given (all far below its maxLength of 1000):
\* empty, blank, plain, and with blanks around the words
InputTexts ==
    { <<>>, <<" ">>, <<"h", "i">>, <<" ", "h", "i", " ">>, <<"y", "o">> }

\* onChangeText={setInputText}; the input is not editable while loading
AiTypeInput ==
    /\ AiMainViewUsable
    /\ ~aiScreen.isLoading
    /\ \E text \in InputTexts :
          aiScreen' = [aiScreen EXCEPT !.inputText = text]
    /\ ev' = NoEvent
    /\ UNCHANGED aiEnv

\* time passes
ClockAdvances ==
    /\ aiEnv.now < MaxClock
    /\ aiEnv' = [aiEnv EXCEPT !.now = @ + 1]
    /\ ev' = NoEvent
    /\ UNCHANGED aiScreen

SendEvent(op) ==
    [op |-> op,
     inputText |-> aiScreen.inputText,
     isLoading |-> aiScreen.isLoading,
     messages |-> aiScreen.messages,
     postsBefore |-> aiEnv.posts]

\* a first line of handleSendMessage that lets blank input through
SendRejectedLoadingOnly == aiScreen.isLoading

\* if (!inputText.trim() || isLoading) return;
SendRejected == Trim(aiScreen.inputText) = <<>> \/ aiScreen.isLoading

\* a request body holding the input as it was typed
PostedPromptRaw(text) == text

\* prompt: prompt.trim() in the request body
PostedPrompt(text) == Trim(text)

\* handleSendMessage up to the fetch, from the Send button or the keyboard;
\* at most limit calls are followed
SendWithin(limit) ==
    /\ AiMainViewUsable
    /\ SendRejected \/ aiEnv.posts < limit
    /\ IF SendRejected
       THEN /\ ev' = SendEvent("sendIgnored")
            /\ UNCHANGED <<aiScreen, aiEnv>>
       ELSE /\ aiScreen' = [aiScreen EXCEPT
                  !.messages = Append(@, [id |-> aiEnv.now,
                                          text |-> Trim(aiScreen.inputText),
                                          isUser |-> TRUE,
                                          timestamp |-> aiEnv.now]),
                  !.inputText = <<>>,
                  !.isLoading = TRUE]
            /\ aiEnv' = [aiEnv EXCEPT
                  !.fetch = [state |-> "pending",
                             prompt |-> PostedPrompt(aiScreen.inputText),
                             userId |-> aiEnv.now,
                             lengthBefore |-> Len(aiScreen.messages),
                             cleared |-> FALSE],
                  !.timer = TRUE,
                  !.posts = @ + 1]
            /\ ev' = SendEvent("sendAccepted")

handleSendMessage == SendWithin(MaxSends)

\* handleSendMessage after its await: the reply is appended and the flag
\* cleared
ReplyAppended(outcome) ==
    aiScreen' = [aiScreen EXCEPT
        !.messages = Append(@, [id |-> aiEnv.now + 1,
                                text |-> FetchReply(outcome),
                                isUser |-> FALSE,
                                timestamp |-> aiEnv.now]),
        !.isLoading = FALSE]

\* the whole call in one step: fetchWithTimeout clears its timer on both of
\* its paths, or the timer has fired and is spent
AppendReply(outcome) ==
    /\ aiEnv.fetch.state = "pending"
    /\ ReplyAppended(outcome)
    /\ aiEnv' = [aiEnv EXCEPT !.fetch = [state |-> "idle"], !.timer = FALSE]

\* the chat call ends; handleSendMessage appends the reply and clears the flag
FetchSettles(outcome) ==
    /\ AppendReply(outcome)
    /\ ev' = [op |-> "sendCompleted",
              kind |-> outcome.kind,
              status |-> IF outcome.kind = "http" THEN outcome.status ELSE 0,
              userId |-> aiEnv.fetch.userId,
              lengthBefore |-> aiEnv.fetch.lengthBefore,
              cleared |-> aiEnv.fetch.cleared]

openSettings ==
    /\ AiMainViewUsable
    /\ aiScreen' = [aiScreen EXCEPT !.settingsVisible = TRUE]
    /\ ev' = NoEvent
    /\ UNCHANGED aiEnv

\* closeSettings: starts the slide-out; a slide-out already running is
\* stopped, which runs its completion callback at once
CloseSettingsEffect(screen) ==
    IF aiEnv.closing
    THEN [screen EXCEPT !.settingsVisible = FALSE, !.clearChatVisible = FALSE]
    ELSE screen

closeSettings ==
    /\ aiScreen.settingsVisible
    /\ ~aiScreen.clearChatVisible
    /\ aiScreen' = CloseSettingsEffect(aiScreen)
    /\ aiEnv' = [aiEnv EXCEPT !.closing = TRUE]
    /\ ev' = NoEvent

\* the completion callback of the slide-out
CloseAnimationEnds ==
    /\ aiEnv.closing
    /\ aiScreen' = [aiScreen EXCEPT
                       !.settingsVisible = FALSE,
                       !.clearChatVisible = FALSE]
    /\ aiEnv' = [aiEnv EXCEPT !.closing = FALSE]
    /\ ev' = NoEvent

\* 'Clear Chat History' in the settings sheet
handleClearChat ==
    /\ aiScreen.settingsVisible
    /\ ~aiScreen.clearChatVisible
    /\ aiScreen' = [aiScreen EXCEPT !.clearChatVisible = TRUE]
    /\ ev' = NoEvent
    /\ UNCHANGED aiEnv

\* Cancel in the confirmation, or the hardware back button
CancelClearChat ==
    /\ aiScreen.clearChatVisible
    /\ aiScreen' = [aiScreen EXCEPT !.clearChatVisible = FALSE]
    /\ ev' = NoEvent
    /\ UNCHANGED aiEnv

\* confirmClearChat: reseed the transcript, then closeSettings
ClearChatEffect(screen) ==
    CloseSettingsEffect([screen EXCEPT !.messages = <<Greeting(aiEnv.now)>>])

ClearChatEnv ==
    [aiEnv EXCEPT
        !.closing = TRUE,
        !.fetch = IF @.state = "pending" THEN [@ EXCEPT !.cleared = TRUE] ELSE @]

\* Clear in the confirmation
confirmClearChat ==
    /\ aiScreen.clearChatVisible
    /\ aiScreen' = ClearChatEffect(aiScreen)
    /\ aiEnv' = ClearChatEnv
    /\ ev' = [op |-> "confirmClearChat", inFlight |-> aiEnv.fetch.state = "pending"]

\* 'New Chat' in the settings sheet
NewChat ==
    /\ aiScreen.settingsVisible
    /\ ~aiScreen.clearChatVisible
    /\ aiScreen' = ClearChatEffect([aiScreen EXCEPT !.clearChatVisible = FALSE])
    /\ aiEnv' = ClearChatEnv
    /\ ev' = [op |-> "confirmClearChat", inFlight |-> aiEnv.fetch.state = "pending"]

\* the same step, recorded with the way the call ended and the prompt it
\* was sent with
FetchReturns(outcome) ==
    /\ AppendReply(outcome)
    /\ ev' = [op |-> "fetchReturned",
              outcome |-> outcome,
              prompt |-> aiEnv.fetch.prompt]

NextAi ==
    /\ \/ AiTypeInput
       \/ ClockAdvances
       \/ handleSendMessage
       \/ \E outcome \in FetchOutcomes : FetchSettles(outcome)
       \/ openSettings
       \/ closeSettings
       \/ CloseAnimationEnds
       \/ handleClearChat
       \/ CancelClearChat
       \/ confirmClearChat
       \/ NewChat
    /\ UNCHANGED <<sharedVars, verifyVars, signInVars, signUpVars, profileVars>>

SpecAi == Init /\ [][NextAi]_vars

----------------------------------------------------------------------------
(* SignInScreen                                                            *)

\* a field that stores the text as it is typed
StripWhitespaceIdentity(text) == text
\* text.replace(/\s/g, '')
StripWhitespace(text) == SelectSeq(text, LAMBDA c : ~IsSpace(c))

\* s.includes(' ')
HasSpace(s) == Includes(s, <<" ">>)

\* texts the e-mail fields are given: empty, one with a space inside, the
\* same without it, one with no domain suffix, a blank
EmailTexts ==
    { <<>>,
      <<"a", " ", "b", "@", "x", ".", "c">>,
      <<"a", "b", "@", "x", ".", "c">>,
      <<"a", "b", "@", "x">>,
      <<" ">> }

\* texts the sign-in password field is given
SignInPasswordTexts ==
    { <<>>, <<"p", "w", "1">>, <<"p", " ", "w", "1">>, <<"\t">> }

\* statuses signIn.create can resolve with
SignInStatuses == {"complete", "needs_first_factor", "needs_second_factor"}

\* the form is rendered once the provider has loaded; it takes no touches
\* while an alert is up
SignInFormShown == clerk.isLoaded /\ alert = NoAlert

\* a button that is disabled only while loading
SignInButtonDisabledLoadingOnly == signInScreen.isLoading
\* disabled={!email || !password || isLoading}
SignInButtonDisabled ==
    \/ signInScreen.email = <<>>
    \/ signInScreen.password = <<>>
    \/ signInScreen.isLoading

SignInTypeEmail ==
    /\ SignInFormShown
    /\ ~signInScreen.isLoading
    /\ \E text \in EmailTexts :
          /\ signInScreen' = [signInScreen EXCEPT !.email = StripWhitespace(text)]
          /\ typed' = [typed EXCEPT !.signInEmail = text]
    /\ ev' = NoEvent
    /\ UNCHANGED <<clerk, alert, route, signInEnv>>

SignInTypePassword ==
    /\ SignInFormShown
    /\ ~signInScreen.isLoading
    /\ \E text \in SignInPasswordTexts :
          /\ signInScreen' = [signInScreen EXCEPT
                                 !.password = StripWhitespace(text)]
          /\ typed' = [typed EXCEPT !.signInPassword = text]
    /\ ev' = NoEvent
    /\ UNCHANGED <<clerk, alert, route, signInEnv>>

SignInEvent(op) ==
    [op |-> op,
     typedEmail |-> typed.signInEmail,
     typedPassword |-> typed.signInPassword,
     email |-> signInScreen.email,
     password |-> signInScreen.password,
     isLoaded |-> clerk.isLoaded,
     isLoading |-> signInScreen.isLoading,
     callsBefore |-> signInEnv.createCalls,
     alertBefore |-> alert]

\* handleSubmit of SignInScreen up to the signIn.create call
signInHandleSubmit ==
    /\ signInEnv.createCalls + signInEnv.oauthCalls < MaxCalls
    /\ ev' = SignInEvent("signInSubmit")
    /\ UNCHANGED <<clerk, route, typed>>
    /\ IF ~clerk.isLoaded
       THEN UNCHANGED <<signInScreen, signInEnv, alert>>
       ELSE IF signInScreen.email = <<>> \/ signInScreen.password = <<>>
       THEN /\ alert' = ShowAlert("Error", "Please fill in all fields")
            /\ UNCHANGED <<signInScreen, signInEnv>>
       ELSE IF HasSpace(signInScreen.email) \/ HasSpace(signInScreen.password)
       THEN /\ alert' = ShowAlert("Error",
                                  "Email and password cannot contain spaces")
            /\ UNCHANGED <<signInScreen, signInEnv>>
       ELSE /\ signInScreen' = [signInScreen EXCEPT !.isLoading = TRUE]
            /\ signInEnv' = [signInEnv EXCEPT
                  !.call = "creating",
                  !.createCalls = @ + 1,
                  !.identifier = Trim(signInScreen.email),
                  !.password = signInScreen.password]
            /\ UNCHANGED alert

\* a tap on the Sign In button
PressSignIn ==
    /\ SignInFormShown
    /\ IF SignInButtonDisabled
       THEN /\ ev' = SignInEvent("signInPressDisabled")
            /\ UNCHANGED <<clerk, alert, route, typed, signInScreen, signInEnv>>
       ELSE signInHandleSubmit

\* the message of the catch block of handleSubmit
SignInErrorMessage(err) ==
    IF err.kind = "clerk"
    THEN IF err.empty
         THEN "An error occurred during sign in. Please try again."
         ELSE OrElse(err.message,
                     "An error occurred during sign in. Please try again.")
    ELSE err.message

SignInCreateResolves(status) ==
    /\ signInEnv.call = "creating"
    /\ IF status = "complete"
       THEN /\ signInEnv' = [signInEnv EXCEPT
                  !.call = "activating", !.activateCalls = @ + 1]
            /\ UNCHANGED <<signInScreen, alert>>
       ELSE /\ signInEnv' = [signInEnv EXCEPT !.call = "idle"]
            /\ signInScreen' = [signInScreen EXCEPT !.isLoading = FALSE]
            /\ alert' = ShowAlert("Error",
                  "Sign in failed. Please check your credentials.")
    /\ ev' = CallEvent("signIn", "create", "resolved", status, "")
    /\ UNCHANGED <<clerk, route, typed>>

\* signIn.create or setActive rejects: the catch and finally blocks
SignInCallRejects(err) ==
    /\ signInEnv.call \in {"creating", "activating"}
    /\ signInEnv' = [signInEnv EXCEPT !.call = "idle"]
    /\ signInScreen' = [signInScreen EXCEPT !.isLoading = FALSE]
    /\ alert' = ShowAlert("Sign In Failed", SignInErrorMessage(err))
    /\ ev' = CallEvent("signIn",
                       IF signInEnv.call = "creating" THEN "create"
                                                      ELSE "setActive",
                       "rejected", "", ErrorText(err))
    /\ UNCHANGED <<clerk, route, typed>>

\* setActive resolves: router.replace('/(tabs)'), then the finally block
SignInActivateResolves ==
    /\ signInEnv.call = "activating"
    /\ signInEnv' = [signInEnv EXCEPT !.call = "idle"]
    /\ signInScreen' = [signInScreen EXCEPT !.isLoading = FALSE]
    /\ route' = "/(tabs)"
    /\ ev' = CallEvent("signIn", "setActive", "resolved", "", "")
    /\ UNCHANGED <<clerk, alert, typed>>

\* a cancellation test that recognises nothing
SignInIsCancellationNever(err) == FALSE
\* err instanceof Error && (err.message.includes('cancelled') ||
\* err.message.includes('user_cancelled'))
SignInIsCancellation(err) ==
    /\ err.kind = "error"
    /\ \/ MessageIncludes(err.message, "cancelled")
       \/ MessageIncludes(err.message, "user_cancelled")

\* the message of the catch block of an OAuth handler
OAuthErrorMessage(err, default) ==
    IF err.kind = "clerk"
    THEN IF err.empty THEN default ELSE OrElse(err.message, default)
    ELSE err.message

SignInOAuthEvent(op, provider) ==
    [op |-> op,
     provider |-> provider,
     isLoaded |-> clerk.isLoaded,
     isLoading |-> signInScreen.isLoading,
     callBefore |-> signInEnv.call,
     callsBefore |-> signInEnv.oauthCalls]

\* handleGoogleSignIn and handleMicrosoftSignIn up to startOAuthFlow
signInHandleOAuth(provider) ==
    /\ signInEnv.createCalls + signInEnv.oauthCalls < MaxCalls
    /\ ev' = SignInOAuthEvent("signInOAuth", provider)
    /\ UNCHANGED <<clerk, alert, route, typed>>
    /\ IF ~clerk.isLoaded
       THEN UNCHANGED <<signInScreen, signInEnv>>
       ELSE /\ signInScreen' = [signInScreen EXCEPT !.isLoading = TRUE]
            /\ signInEnv' = [signInEnv EXCEPT
                  !.call = "oauth",
                  !.oauthCalls = @ + 1,
                  !.provider = provider]

\* a tap on the Google or the Microsoft button
PressSignInOAuth ==
    /\ SignInFormShown
    /\ \E provider \in OAuthProviders :
          IF signInScreen.isLoading
          THEN /\ ev' = SignInOAuthEvent("signInOAuthPressDisabled", provider)
               /\ UNCHANGED <<clerk, alert, route, typed, signInScreen,
                              signInEnv>>
          ELSE signInHandleOAuth(provider)

\* the catch and finally blocks of the OAuth handlers
SignInOAuthCatch(err) ==
    /\ signInScreen' = [signInScreen EXCEPT !.isLoading = FALSE]
    /\ alert' =
          IF SignInIsCancellation(err)
          THEN alert
          ELSE IF signInEnv.provider = "Google"
          THEN ShowAlert("Google Sign In Failed",
                  OAuthErrorMessage(err,
                     "Failed to sign in with Google. Please try again."))
          ELSE ShowAlert("Microsoft Sign In Failed",
                  OAuthErrorMessage(err,
                     "Failed to sign in with Microsoft. Please try again."))

\* startOAuthFlow resolves, with or without a created session
SignInOAuthResolves(hasSessionId) ==
    /\ signInEnv.call = "oauth"
    /\ IF hasSessionId
       THEN /\ signInEnv' = [signInEnv EXCEPT
                  !.call = "oauthActivating", !.activateCalls = @ + 1]
            /\ UNCHANGED <<signInScreen, alert>>
       ELSE /\ signInEnv' = [signInEnv EXCEPT !.call = "idle"]
            /\ SignInOAuthCatch(PlainError(
                  IF signInEnv.provider = "Google"
                  THEN "Google sign in incomplete"
                  ELSE "Microsoft sign in incomplete"))
    /\ ev' = CallEvent("signInOAuth", "startOAuthFlow", "resolved",
                       IF hasSessionId THEN "session" ELSE "no session", "")
    /\ UNCHANGED <<clerk, route, typed>>

\* startOAuthFlow or setActive rejects
SignInOAuthRejects(err) ==
    /\ signInEnv.call \in {"oauth", "oauthActivating"}
    /\ signInEnv' = [signInEnv EXCEPT !.call = "idle"]
    /\ SignInOAuthCatch(err)
    /\ ev' = CallEvent("signInOAuth",
                       IF signInEnv.call = "oauth" THEN "startOAuthFlow"
                                                   ELSE "setActive",
                       "rejected", "", ErrorText(err))
    /\ UNCHANGED <<clerk, route, typed>>

\* setActive resolves: router.replace('/(tabs)'), then the finally block
SignInOAuthActivateResolves ==
    /\ signInEnv.call = "oauthActivating"
    /\ signInEnv' = [signInEnv EXCEPT !.call = "idle"]
    /\ signInScreen' = [signInScreen EXCEPT !.isLoading = FALSE]
    /\ route' = "/(tabs)"
    /\ ev' = CallEvent("signInOAuth", "setActive", "resolved", "", "")
    /\ UNCHANGED <<clerk, alert, typed>>

NextSignIn ==
    /\ \/ ClerkLoaded /\ UNCHANGED signInVars
       \/ DismissAlert /\ UNCHANGED signInVars
       \/ SignInTypeEmail
       \/ SignInTypePassword
       \/ PressSignIn
       \/ \E status \in SignInStatuses : SignInCreateResolves(status)
       \/ \E err \in ProviderErrors : SignInCallRejects(err)
       \/ SignInActivateResolves
       \/ PressSignInOAuth
       \/ \E hasSessionId \in BOOLEAN : SignInOAuthResolves(hasSessionId)
       \/ \E err \in OAuthErrors : SignInOAuthRejects(err)
       \/ SignInOAuthActivateResolves
    /\ UNCHANGED <<verifyVars, aiVars, signUpVars, profileVars>>

SpecSignIn == Init /\ [][NextSignIn]_vars

----------------------------------------------------------------------------
(* SignUpScreen                                                            *)

\* the pattern /^[^\s@]+@[^\s@]+\.[^\s@]+$/ : no whitespace, exactly one
\* '@' with a character before it, and after it a '.' with a character on
\* each side
EmailRegexTest(s) ==
    /\ \A k \in 1..Len(s) : ~IsSpace(s[k])
    /\ \E i \in 1..Len(s) :
          /\ s[i] = "@"
          /\ i > 1
          /\ \A k \in 1..Len(s) : s[k] = "@" => k = i
          /\ \E j \in (i + 2)..(Len(s) - 1) : s[j] = "."

\* a length test that lets every password through
PasswordTooShortNever(password) == FALSE
\* password.length < 8
PasswordTooShort(password) == Len(password) < 8

\* texts the name fields are given
NameTexts == { <<>>, <<"A">>, <<" ">> }

\* texts the sign-up password field is given: six characters, nine, and
\* nine with a space inside
SignUpPasswordTexts ==
    { <<>>,
      <<"s", "h", "o", "r", "t", "1">>,
      <<"l", "o", "n", "g", "p", "a", "s", "s", "1">>,
      <<"l", "o", "n", "g", " ", "p", "a", "s", "s", "1">> }

\* a thrown provider error of the sign-up calls
SignUpErrorCodes ==
    {"form_identifier_exists", "form_password_length_too_short",
     "form_password_pwned", "form_param_format_invalid", "session_exists"}

SignUpErrors ==
    [kind : {"clerk"}, empty : {FALSE}, code : SignUpErrorCodes,
     message : {"", "email_address is invalid", "provider message"},
     longMessage : {"", "provider long message"}]
    \cup
    {[kind |-> "clerk", empty |-> TRUE, code |-> "", message |-> "",
      longMessage |-> ""]}
    \cup
    {PlainError("Network request failed")}

SignUpFormShown == clerk.isLoaded /\ alert = NoAlert

SignUpButtonDisabled ==
    \/ signUpScreen.firstName = <<>>
    \/ signUpScreen.lastName = <<>>
    \/ signUpScreen.email = <<>>
    \/ signUpScreen.password = <<>>
    \/ signUpScreen.isLoading

\* onChangeText={setFirstName} and onChangeText={setLastName}
SignUpTypeName ==
    /\ SignUpFormShown
    /\ ~signUpScreen.isLoading
    /\ \E text \in NameTexts :
          \/ signUpScreen' = [signUpScreen EXCEPT !.firstName = text]
          \/ signUpScreen' = [signUpScreen EXCEPT !.lastName = text]
    /\ ev' = NoEvent
    /\ UNCHANGED <<clerk, alert, route, typed, signUpEnv>>

SignUpTypeEmail ==
    /\ SignUpFormShown
    /\ ~signUpScreen.isLoading
    /\ \E text \in EmailTexts :
          /\ signUpScreen' = [signUpScreen EXCEPT !.email = StripWhitespace(text)]
          /\ typed' = [typed EXCEPT !.signUpEmail = text]
    /\ ev' = NoEvent
    /\ UNCHANGED <<clerk, alert, route, signUpEnv>>

SignUpTypePassword ==
    /\ SignUpFormShown
    /\ ~signUpScreen.isLoading
    /\ \E text \in SignUpPasswordTexts :
          /\ signUpScreen' = [signUpScreen EXCEPT
                                 !.password = StripWhitespace(text)]
          /\ typed' = [typed EXCEPT !.signUpPassword = text]
    /\ ev' = NoEvent
    /\ UNCHANGED <<clerk, alert, route, signUpEnv>>

SignUpEvent(op) ==
    [op |-> op,
     firstName |-> signUpScreen.firstName,
     lastName |-> signUpScreen.lastName,
     email |-> signUpScreen.email,
     password |-> signUpScreen.password,
     isLoaded |-> clerk.isLoaded,
     isLoading |-> signUpScreen.isLoading,
     createBefore |-> signUpEnv.createCalls,
     prepareBefore |-> signUpEnv.prepareCalls,
     alertBefore |-> alert]

SignUpReject(message) ==
    /\ alert' = ShowAlert("Error", message)
    /\ UNCHANGED <<signUpScreen, signUpEnv>>

\* handleSubmit of SignUpScreen up to the signUp.create call
signUpHandleSubmit ==
    /\ signUpEnv.createCalls + signUpEnv.oauthCalls < MaxCalls
    /\ ev' = SignUpEvent("signUpSubmit")
    /\ UNCHANGED <<clerk, route, typed>>
    /\ IF ~clerk.isLoaded
       THEN UNCHANGED <<signUpScreen, signUpEnv, alert>>
       ELSE IF \/ signUpScreen.firstName = <<>>
               \/ signUpScreen.lastName = <<>>
               \/ signUpScreen.email = <<>>
               \/ signUpScreen.password = <<>>
       THEN SignUpReject("Please fill in all required fields")
       ELSE IF HasSpace(signUpScreen.email) \/ HasSpace(signUpScreen.password)
       THEN SignUpReject("Email and password cannot contain spaces")
       ELSE IF ~EmailRegexTest(signUpScreen.email)
       THEN SignUpReject("Please enter a valid email address")
       ELSE IF PasswordTooShort(signUpScreen.password)
       THEN SignUpReject("Password must be at least 8 characters long")
       ELSE /\ signUpScreen' = [signUpScreen EXCEPT !.isLoading = TRUE]
            /\ signUpEnv' = [signUpEnv EXCEPT
                  !.call = "creating",
                  !.createCalls = @ + 1,
                  !.emailAddress = Trim(signUpScreen.email),
                  !.password = signUpScreen.password]
            /\ UNCHANGED alert

\* a tap on the Create Account button
PressSignUp ==
    /\ SignUpFormShown
    /\ IF SignUpButtonDisabled
       THEN /\ ev' = SignUpEvent("signUpPressDisabled")
            /\ UNCHANGED <<clerk, alert, route, typed, signUpScreen, signUpEnv>>
       ELSE signUpHandleSubmit

\* signUp.create resolves; prepareEmailAddressVerification is called next
SignUpCreateResolves ==
    /\ signUpEnv.call = "creating"
    /\ signUpEnv' = [signUpEnv EXCEPT
          !.call = "preparing", !.prepareCalls = @ + 1]
    /\ clerk' = [clerk EXCEPT !.signUpStatus = "missing_requirements"]
    /\ ev' = CallEvent("signUp", "create", "resolved", "", "")
    /\ UNCHANGED <<signUpScreen, alert, route, typed>>

\* prepareEmailAddressVerification resolves: the alert (its title is
\* followed by a check-mark emoji in the source), then the finally block
SignUpPrepareResolves ==
    /\ signUpEnv.call = "preparing"
    /\ signUpEnv' = [signUpEnv EXCEPT !.call = "idle"]
    /\ signUpScreen' = [signUpScreen EXCEPT !.isLoading = FALSE]
    /\ alert' = ShowAlert("Verification Email Sent!",
          "We've sent a verification code. Please check your inbox and spam folder.")
    /\ ev' = CallEvent("signUp", "prepareEmailAddressVerification",
                       "resolved", "", "")
    /\ UNCHANGED <<clerk, route, typed>>

\* the message of the catch block of handleSubmit (message is a string in
\* every entry of errors, possibly the empty one)
SignUpErrorMessage(err) ==
    LET default == "An error occurred during sign up. Please try again."
        fromFields == OrElse(err.longMessage, OrElse(err.message, default))
    IN IF err.kind = "clerk"
       THEN IF err.empty
            THEN default
            ELSE CASE err.code = "form_identifier_exists" ->
                        "This email address is already registered. Please try signing in instead."
                   [] err.code = "form_password_length_too_short" ->
                        "Password is too short. Please use at least 8 characters."
                   [] err.code = "form_password_pwned" ->
                        "This password has been compromised in data breaches. Please choose a different password."
                   [] err.code = "form_param_format_invalid" ->
                        IF MessageIncludes(err.message, "email")
                        THEN "Please enter a valid email address."
                        ELSE fromFields
                   [] OTHER -> fromFields
       ELSE err.message

\* signUp.create or prepareEmailAddressVerification rejects: the catch and
\* finally blocks
SignUpCallRejects(err) ==
    /\ signUpEnv.call \in {"creating", "preparing"}
    /\ signUpEnv' = [signUpEnv EXCEPT !.call = "idle"]
    /\ signUpScreen' = [signUpScreen EXCEPT !.isLoading = FALSE]
    /\ alert' = ShowAlert("Sign Up Failed", SignUpErrorMessage(err))
    /\ ev' = CallEvent("signUp",
                       IF signUpEnv.call = "creating"
                       THEN "create"
                       ELSE "prepareEmailAddressVerification",
                       "rejected", "", ErrorText(err))
    /\ UNCHANGED <<clerk, route, typed>>

\* a button that pushes the verification screen from whatever alert is shown
PressEnterVerificationCodeAnyAlert ==
    /\ alert # NoAlert
    /\ alert' = NoAlert
    /\ route' = "/verify-email"
    /\ signUpEnv' = [signUpEnv EXCEPT
          !.pushed = TRUE, !.pushedEmail = signUpEnv.emailAddress]
    /\ ev' = [op |-> "pushVerifyEmail"]
    /\ UNCHANGED <<clerk, typed, signUpScreen>>
\* the button of the verification-sent alert: router.push('/verify-email')
PressEnterVerificationCode ==
    /\ alert.title = "Verification Email Sent!"
    /\ alert' = NoAlert
    /\ route' = "/verify-email"
    /\ signUpEnv' = [signUpEnv EXCEPT
          !.pushed = TRUE, !.pushedEmail = signUpEnv.emailAddress]
    /\ ev' = [op |-> "pushVerifyEmail"]
    /\ UNCHANGED <<clerk, typed, signUpScreen>>

\* the OK button of an alert of the sign-up screen
SignUpDismissAlert ==
    /\ alert.title # "Verification Email Sent!"
    /\ DismissAlert
    /\ UNCHANGED signUpVars

\* err instanceof Error && err.message.includes('cancelled')
SignUpIsCancellation(err) ==
    /\ err.kind = "error"
    /\ MessageIncludes(err.message, "cancelled")

SignUpOAuthEvent(op, provider) ==
    [op |-> op,
     provider |-> provider,
     isLoaded |-> clerk.isLoaded,
     isLoading |-> signUpScreen.isLoading,
     callBefore |-> signUpEnv.call,
     callsBefore |-> signUpEnv.oauthCalls]

\* handleGoogleSignUp and handleMicrosoftSignUp up to startOAuthFlow
signUpHandleOAuth(provider) ==
    /\ signUpEnv.createCalls + signUpEnv.oauthCalls < MaxCalls
    /\ ev' = SignUpOAuthEvent("signUpOAuth", provider)
    /\ UNCHANGED <<clerk, alert, route, typed>>
    /\ IF ~clerk.isLoaded
       THEN UNCHANGED <<signUpScreen, signUpEnv>>
       ELSE /\ signUpScreen' = [signUpScreen EXCEPT !.isLoading = TRUE]
            /\ signUpEnv' = [signUpEnv EXCEPT
                  !.call = "oauth",
                  !.oauthCalls = @ + 1,
                  !.provider = provider]

\* a tap on the Google or the Microsoft button
PressSignUpOAuth ==
    /\ SignUpFormShown
    /\ \E provider \in OAuthProviders :
          IF signUpScreen.isLoading
          THEN /\ ev' = SignUpOAuthEvent("signUpOAuthPressDisabled", provider)
               /\ UNCHANGED <<clerk, alert, route, typed, signUpScreen,
                              signUpEnv>>
          ELSE signUpHandleOAuth(provider)

\* a catch block whose return on a cancellation skips the finally block
SignUpOAuthCatchReturnsEarly(err) ==
    /\ signUpScreen' = [signUpScreen EXCEPT
          !.isLoading = SignUpIsCancellation(err)]
    /\ alert' =
          IF SignUpIsCancellation(err)
          THEN alert
          ELSE IF signUpEnv.provider = "Google"
          THEN ShowAlert("Google Sign Up Failed",
                  OAuthErrorMessage(err,
                     "Failed to sign up with Google. Please try again."))
          ELSE ShowAlert("Microsoft Sign Up Failed",
                  OAuthErrorMessage(err,
                     "Failed to sign up with Microsoft. Please try again."))
\* the catch and finally blocks of the OAuth handlers
SignUpOAuthCatch(err) ==
    /\ signUpScreen' = [signUpScreen EXCEPT !.isLoading = FALSE]
    /\ alert' =
          IF SignUpIsCancellation(err)
          THEN alert
          ELSE IF signUpEnv.provider = "Google"
          THEN ShowAlert("Google Sign Up Failed",
                  OAuthErrorMessage(err,
                     "Failed to sign up with Google. Please try again."))
          ELSE ShowAlert("Microsoft Sign Up Failed",
                  OAuthErrorMessage(err,
                     "Failed to sign up with Microsoft. Please try again."))

\* startOAuthFlow resolves, with or without a created session
SignUpOAuthResolves(hasSessionId) ==
    /\ signUpEnv.call = "oauth"
    /\ IF hasSessionId
       THEN /\ signUpEnv' = [signUpEnv EXCEPT
                  !.call = "oauthActivating", !.activateCalls = @ + 1]
            /\ UNCHANGED <<signUpScreen, alert>>
       ELSE /\ signUpEnv' = [signUpEnv EXCEPT !.call = "idle"]
            /\ SignUpOAuthCatch(PlainError(
                  IF signUpEnv.provider = "Google"
                  THEN "Google sign up incomplete"
                  ELSE "Microsoft sign up incomplete"))
    /\ ev' = CallEvent("signUpOAuth", "startOAuthFlow", "resolved",
                       IF hasSessionId THEN "session" ELSE "no session", "")
    /\ UNCHANGED <<clerk, route, typed>>

\* startOAuthFlow or setActive rejects
SignUpOAuthRejects(err) ==
    /\ signUpEnv.call \in {"oauth", "oauthActivating"}
    /\ signUpEnv' = [signUpEnv EXCEPT !.call = "idle"]
    /\ SignUpOAuthCatch(err)
    /\ ev' = CallEvent("signUpOAuth",
                       IF signUpEnv.call = "oauth" THEN "startOAuthFlow"
                                                   ELSE "setActive",
                       "rejected", "", ErrorText(err))
    /\ UNCHANGED <<clerk, route, typed>>

\* setActive resolves: router.replace('/(tabs)'), then the finally block
SignUpOAuthActivateResolves ==
    /\ signUpEnv.call = "oauthActivating"
    /\ signUpEnv' = [signUpEnv EXCEPT !.call = "idle"]
    /\ signUpScreen' = [signUpScreen EXCEPT !.isLoading = FALSE]
    /\ route' = "/(tabs)"
    /\ ev' = CallEvent("signUpOAuth", "setActive", "resolved", "", "")
    /\ UNCHANGED <<clerk, alert, typed>>

NextSignUp ==
    /\ \/ ClerkLoaded /\ UNCHANGED signUpVars
       \/ SignUpDismissAlert
       \/ SignUpTypeName
       \/ SignUpTypeEmail
       \/ SignUpTypePassword
       \/ PressSignUp
       \/ SignUpCreateResolves
       \/ SignUpPrepareResolves
       \/ \E err \in SignUpErrors : SignUpCallRejects(err)
       \/ PressEnterVerificationCode
       \/ PressSignUpOAuth
       \/ \E hasSessionId \in BOOLEAN : SignUpOAuthResolves(hasSessionId)
       \/ \E err \in OAuthErrors : SignUpOAuthRejects(err)
       \/ SignUpOAuthActivateResolves
    /\ UNCHANGED <<verifyVars, aiVars, signInVars, profileVars>>

SpecSignUp == Init /\ [][NextSignUp]_vars

----------------------------------------------------------------------------
(* ProfileScreen                                                           *)

\* a layout that shows the tabs to whoever the loaded provider reports
TabLayoutLoadedOnly ==
    IF ~clerk.isLoaded THEN "ActivityIndicator" ELSE "Tabs"

\* what TabLayout returns: the spinner, the redirect to '/sign-in', or the
\* tabs
TabLayout ==
    IF ~clerk.isLoaded THEN "ActivityIndicator"
    ELSE IF ~profileEnv.isSignedIn THEN "Redirect"
    ELSE "Tabs"

\* the profile tab is on screen when TabLayout renders the tabs; no touch
\* reaches it while an alert is up
ProfileShown == TabLayout = "Tabs" /\ alert = NoAlert

\* the sheet and its items are on top of the main view, the confirmation is
\* on top of the sheet
ProfileSheetUsable ==
    /\ ProfileShown
    /\ profileScreen.settingsVisible
    /\ ~profileScreen.deleteAccountVisible

ProfileInfoMessages ==
    {"Personal information update screen", "Security settings screen",
     "Notification settings screen", "Payment methods screen",
     "Help and support screen", "Privacy policy screen"}

ProfileEvent(op) ==
    [op |-> op,
     callsBefore |-> profileEnv.signOutCalls,
     outstandingBefore |-> profileEnv.handled + profileEnv.bare,
     alertBefore |-> alert]

profileOpenSettings ==
    /\ ProfileShown
    /\ ~profileScreen.settingsVisible
    /\ ~profileScreen.deleteAccountVisible
    /\ profileScreen' = [profileScreen EXCEPT !.settingsVisible = TRUE]
    /\ ev' = NoEvent
    /\ UNCHANGED <<clerk, alert, route, typed, profileEnv>>

\* closeSettings: the slide-out animation is started
profileCloseSettings ==
    /\ ProfileSheetUsable
    /\ profileEnv' = [profileEnv EXCEPT !.closing = TRUE]
    /\ ev' = NoEvent
    /\ UNCHANGED <<clerk, alert, route, typed, profileScreen>>

\* the callback of the animation hides the sheet and the confirmation
ProfileCloseAnimationEnds ==
    /\ profileEnv.closing
    /\ profileEnv' = [profileEnv EXCEPT !.closing = FALSE]
    /\ profileScreen' = [settingsVisible |-> FALSE,
                         deleteAccountVisible |-> FALSE]
    /\ ev' = NoEvent
    /\ UNCHANGED <<clerk, alert, route, typed>>

\* an item of the sheet that only shows an Info alert
ProfileInfoItem ==
    /\ ProfileSheetUsable
    /\ \E m \in ProfileInfoMessages : alert' = ShowAlert("Info", m)
    /\ ev' = NoEvent
    /\ UNCHANGED <<clerk, route, typed, profileScreen, profileEnv>>

\* handleSignOut up to the signOut call
handleSignOut ==
    /\ ProfileSheetUsable
    /\ profileEnv.signOutCalls < MaxSignOuts
    /\ profileEnv' = [profileEnv EXCEPT
          !.signOutCalls = @ + 1, !.handled = @ + 1]
    /\ ev' = ProfileEvent("handleSignOut")
    /\ UNCHANGED <<clerk, alert, route, typed, profileScreen>>

handleDeleteAccount ==
    /\ ProfileSheetUsable
    /\ profileScreen' = [profileScreen EXCEPT !.deleteAccountVisible = TRUE]
    /\ ev' = NoEvent
    /\ UNCHANGED <<clerk, alert, route, typed, profileEnv>>

\* the Cancel button of the confirmation
CancelDeleteAccount ==
    /\ ProfileShown
    /\ profileScreen.deleteAccountVisible
    /\ profileScreen' = [profileScreen EXCEPT !.deleteAccountVisible = FALSE]
    /\ ev' = ProfileEvent("cancelDeleteAccount")
    /\ UNCHANGED <<clerk, alert, route, typed, profileEnv>>

\* a Delete button that signs out at once
confirmDeleteAccountSignsOut ==
    /\ ProfileShown
    /\ profileScreen.deleteAccountVisible
    /\ profileEnv.signOutCalls < MaxSignOuts
    /\ alert' = ShowAlert("Account Deletion Initiated",
          "Your account deletion has been done. Any remaining balance of $2,458.75 will be transferred to your registered bank account within 3-5 business days.")
    /\ profileEnv' = [profileEnv EXCEPT
          !.closing = TRUE, !.signOutCalls = @ + 1, !.bare = @ + 1]
    /\ ev' = ProfileEvent("confirmDeleteAccount")
    /\ UNCHANGED <<clerk, route, typed, profileScreen>>
\* the Delete button of the confirmation: the alert, then closeSettings
confirmDeleteAccount ==
    /\ ProfileShown
    /\ profileScreen.deleteAccountVisible
    /\ alert' = ShowAlert("Account Deletion Initiated",
          "Your account deletion has been done. Any remaining balance of $2,458.75 will be transferred to your registered bank account within 3-5 business days.")
    /\ profileEnv' = [profileEnv EXCEPT !.closing = TRUE]
    /\ ev' = ProfileEvent("confirmDeleteAccount")
    /\ UNCHANGED <<clerk, route, typed, profileScreen>>

\* the OK button of the deletion alert: onPress: () => signOut()
AcknowledgeDeletion ==
    /\ alert.title = "Account Deletion Initiated"
    /\ profileEnv.signOutCalls < MaxSignOuts
    /\ alert' = NoAlert
    /\ profileEnv' = [profileEnv EXCEPT
          !.signOutCalls = @ + 1, !.bare = @ + 1]
    /\ ev' = ProfileEvent("acknowledgeDeletion")
    /\ UNCHANGED <<clerk, route, typed, profileScreen>>

\* the OK button of an Info or Error alert of the profile screen
ProfileDismissAlert ==
    /\ alert.title # "Account Deletion Initiated"
    /\ DismissAlert
    /\ UNCHANGED profileVars

\* a signOut call resolves: the session is gone and TabLayout redirects
SignOutResolves ==
    /\ \/ /\ profileEnv.handled > 0
          /\ profileEnv' = [profileEnv EXCEPT
                !.handled = @ - 1, !.isSignedIn = FALSE]
          /\ ev' = CallEvent("signOut", "signOut", "resolved", "", "")
       \/ /\ profileEnv.bare > 0
          /\ profileEnv' = [profileEnv EXCEPT
                !.bare = @ - 1, !.isSignedIn = FALSE]
          /\ ev' = CallEvent("deleteAccount", "signOut", "resolved", "", "")
    /\ route' = "/sign-in"
    /\ UNCHANGED <<clerk, alert, typed, profileScreen>>

\* a signOut call rejects: handleSignOut catches it, the button of the
\* deletion alert does not
SignOutRejects(err) ==
    /\ \/ /\ profileEnv.handled > 0
          /\ profileEnv' = [profileEnv EXCEPT !.handled = @ - 1]
          /\ alert' = ShowAlert("Error",
                                "Failed to sign out. Please try again.")
          /\ ev' = CallEvent("signOut", "signOut", "rejected", "",
                             ErrorText(err))
       \/ /\ profileEnv.bare > 0
          /\ profileEnv' = [profileEnv EXCEPT !.bare = @ - 1]
          /\ UNCHANGED alert
          /\ ev' = CallEvent("deleteAccount", "signOut", "rejected", "",
                             ErrorText(err))
    /\ UNCHANGED <<clerk, route, typed, profileScreen>>

NextProfile ==
    /\ \/ ClerkLoaded /\ UNCHANGED profileVars
       \/ ProfileDismissAlert
       \/ profileOpenSettings
       \/ profileCloseSettings
       \/ ProfileCloseAnimationEnds
       \/ ProfileInfoItem
       \/ handleSignOut
       \/ handleDeleteAccount
       \/ CancelDeleteAccount
       \/ confirmDeleteAccount
       \/ AcknowledgeDeletion
       \/ SignOutResolves
       \/ \E err \in ProviderPlainErrors : SignOutRejects(err)
    /\ UNCHANGED <<verifyVars, aiVars, signInVars, signUpVars>>

SpecProfile == Init /\ [][NextProfile]_vars

----------------------------------------------------------------------------
(* Sessions                                                                *)

\* The router shows one screen at a time. A session is spent on the screen
\* it starts on: a screen takes steps only while the others are as they
\* mount.

\* a screen nobody has touched yet
SignInUntouched ==
    SignInInit /\ typed.signInEmail = <<>> /\ typed.signInPassword = <<>>

SignUpUntouched ==
    SignUpInit /\ typed.signUpEmail = <<>> /\ typed.signUpPassword = <<>>

VerifyUntouched == VerifyScreenInit /\ typed.code = <<>>

\* the two credential forms
NextForms ==
    \/ SignUpUntouched /\ NextSignIn
    \/ SignInUntouched /\ NextSignUp

SpecForms == Init /\ [][NextForms]_vars

\* the screens a visitor passes on the way in
NextAuth ==
    \/ SignUpUntouched /\ VerifyUntouched /\ NextSignIn
    \/ SignInUntouched /\ VerifyUntouched /\ NextSignUp
    \/ SignInUntouched /\ SignUpUntouched /\ NextVerify

SpecAuth == Init /\ [][NextAuth]_vars

\* fetchAIResponse on its own: a text is typed and sent, and the call ends in
\* each of the ways it can
NextAiReply ==
    /\ \/ AiTypeInput
       \/ handleSendMessage
       \/ \E outcome \in FetchOutcomes : FetchReturns(outcome)
    /\ UNCHANGED <<sharedVars, verifyVars, signInVars, signUpVars, profileVars>>

SpecAiReply == Init /\ [][NextAiReply]_vars

\* the chat with the clock and a second send, each call ending in a plain
\* reply or in the timeout
IdOutcomes ==
    {[kind |-> "http", status |-> 200,
      body |-> [kind |-> "string", value |-> "plain text"]]}
    \cup {[kind |-> "abort", err |-> e] : e \in AbortErrors}

NextAiIds ==
    /\ \/ AiTypeInput
       \/ ClockAdvances
       \/ SendWithin(MaxIdSends)
       \/ \E outcome \in IdOutcomes : FetchSettles(outcome)
    /\ UNCHANGED <<sharedVars, verifyVars, signInVars, signUpVars, profileVars>>

SpecAiIds == Init /\ [][NextAiIds]_vars

\* The chat call step by step. fetchWithTimeout awaits fetch with the timer
\* armed and clears the timer when fetch settles; fetchAIResponse then awaits
\* the body (response.text() or response.json()).

\* await fetch resolves with a response: clearTimeout, return response
ResponseArrives ==
    /\ aiEnv.fetch.state = "pending"
    /\ aiEnv' = [aiEnv EXCEPT !.fetch.state = "reading", !.timer = FALSE]
    /\ ev' = NoEvent
    /\ UNCHANGED aiScreen

\* await response.text() or response.json() settles: the reply is appended
BodyRead(outcome) ==
    /\ aiEnv.fetch.state = "reading"
    /\ outcome.kind = "http"
    /\ ReplyAppended(outcome)
    /\ aiEnv' = [aiEnv EXCEPT !.fetch = [state |-> "idle"]]
    /\ ev' = [op |-> "fetchReturned", outcome |-> outcome,
              prompt |-> aiEnv.fetch.prompt]

\* await fetch rejects: clearTimeout, rethrow; the catch block answers
FetchRejects(outcome) ==
    /\ aiEnv.fetch.state = "pending"
    /\ outcome.kind = "reject"
    /\ ReplyAppended(outcome)
    /\ aiEnv' = [aiEnv EXCEPT !.fetch = [state |-> "idle"], !.timer = FALSE]
    /\ ev' = [op |-> "fetchReturned", outcome |-> outcome,
              prompt |-> aiEnv.fetch.prompt]

\* the timer fires: controller.abort() rejects the awaited fetch with an
\* AbortError; once fetch has settled the signal has nothing left to abort
TimeoutFires ==
    /\ aiEnv.timer
    /\ IF aiEnv.fetch.state = "pending"
       THEN /\ \E outcome \in {o \in FetchOutcomes : o.kind = "abort"} :
                  ReplyAppended(outcome)
            /\ aiEnv' = [aiEnv EXCEPT !.fetch = [state |-> "idle"],
                                      !.timer = FALSE]
       ELSE /\ aiEnv' = [aiEnv EXCEPT !.timer = FALSE]
            /\ UNCHANGED aiScreen
    /\ ev' = [op |-> "timeoutFired", fetchState |-> aiEnv.fetch.state]

NextAiTimeout ==
    /\ \/ AiTypeInput
       \/ handleSendMessage
       \/ ResponseArrives
       \/ \E outcome \in FetchOutcomes : BodyRead(outcome)
       \/ \E outcome \in FetchOutcomes : FetchRejects(outcome)
       \/ TimeoutFires
    /\ UNCHANGED <<sharedVars, verifyVars, signInVars, signUpVars, profileVars>>

\* the JavaScript timer queue runs every timer that stays armed; nothing
\* obliges the network to deliver anything
SpecAiTimeout ==
    /\ Init
    /\ [][NextAiTimeout]_vars
    /\ WF_vars(TimeoutFires /\ UNCHANGED <<sharedVars, verifyVars, signInVars,
                                           signUpVars, profileVars>>)

\* the chat screen while it sends: typing, the Send button and the end of
\* the chat call (the overlays of the screen write neither isLoading nor the
\* call in flight, and the clock only stamps the records)
NextAiSend ==
    /\ \/ AiTypeInput
       \/ handleSendMessage
       \/ \E outcome \in FetchOutcomes : FetchSettles(outcome)
    /\ UNCHANGED <<sharedVars, verifyVars, signInVars, signUpVars, profileVars>>

\* the screens that show a loading flag; the chat is a tab, shown once the
\* provider has loaded
NextLoading ==
    \/ SignUpUntouched /\ VerifyUntouched /\ AiInit /\ NextSignIn
    \/ SignInUntouched /\ VerifyUntouched /\ AiInit /\ NextSignUp
    \/ SignInUntouched /\ SignUpUntouched /\ AiInit /\ NextVerify
    \/ SignInUntouched /\ SignUpUntouched /\ VerifyUntouched
       /\ clerk.isLoaded /\ alert = NoAlert /\ NextAiSend

SpecLoading == Init /\ [][NextLoading]_vars

----------------------------------------------------------------------------
(* Verification flow controller                                            *)

\* C1: an invocation of handleVerify whose entered code does not match
\* ^[0-9]{6}$ (as typed or as stored), or that finds the provider not
\* loaded, the sign-up absent, or its status other than
\* 'missing_requirements', ends with an Error alert on screen and has
\* issued no attemptEmailAddressVerification call.
VerifyFailsLocally ==
    ( /\ ev.op = "handleVerify"
      /\ \/ ~MatchesSixDigits(ev.typed)
         \/ ~MatchesSixDigits(ev.code)
         \/ ~ev.isLoaded
         \/ ev.status # "missing_requirements" )
    => /\ verifyEnv.attemptCalls = ev.callsBefore
       /\ alert.title = "Error"
       /\ alert.message # ""

\* handleVerify has run on a loaded, pre-verification sign-up with a
\* five-digit code and has shown the six-digits message
VerifyFailsLocallyWitness ==
    /\ ev.op = "handleVerify"
    /\ ev.isLoaded
    /\ ev.status = "missing_requirements"
    /\ Len(ev.code) = 5
    /\ alert.message = "Verification code must be exactly 6 digits"

\* C2: a press on Resend, or an invocation of handleResendCode, that finds
\* the cooldown above 0 or a resend in flight issues no
\* prepareEmailAddressVerification call.
ResendRejectedWhileCoolingOrInFlight ==
    ( /\ ev.op \in {"handleResendCode", "pressResendDisabled"}
      /\ (ev.cooldown > 0 \/ ev.isResending) )
    => verifyEnv.prepareCalls = ev.callsBefore

\* Resend has been pressed while a resend was in flight
ResendPressedInFlightWitness ==
    /\ ev.op = "pressResendDisabled"
    /\ ev.isResending
    /\ verifyEnv.resending > 0

\* C3: the step on which a resend request succeeds leaves the cooldown at
\* exactly 30; a one-second tick lowers it by exactly 1; nothing else
\* changes it, so it stays at 0 once there; it is never below 0; and when a
\* tick brings it to 0, or it is 0 with no resend in flight, the Resend
\* button is enabled.
CooldownCountsDownFrom30 ==
    [][ /\ ev'.op = "resendResolved" => verifyScreen'.resendCooldown = 30
        /\ ev'.op = "tick" =>
              verifyScreen'.resendCooldown = verifyScreen.resendCooldown - 1
        /\ verifyScreen'.resendCooldown # verifyScreen.resendCooldown =>
              ev'.op \in {"resendResolved", "tick"}
        /\ verifyScreen'.resendCooldown >= 0
        /\ (ev'.op = "tick" /\ verifyScreen'.resendCooldown = 0) =>
              ~ResendButtonDisabled'
        /\ (verifyScreen'.resendCooldown = 0 /\ verifyEnv'.resending = 0) =>
              ~ResendButtonDisabled'
      ]_vars

\* the thirtieth tick after a successful resend has brought the cooldown to 0
CooldownReachedZeroWitness ==
    /\ ev.op = "tick"
    /\ ev.cooldown = 1
    /\ verifyScreen.resendCooldown = 0
    /\ verifyEnv.prepareCalls > 0
    /\ ~ResendButtonDisabled

(* Chat relay *)

\* the record the transcript ends with
LastMessage == aiScreen.messages[Len(aiScreen.messages)]

\* C4: when the chat call of an accepted send has ended, the transcript is
\* exactly two records longer than it was when the send was accepted: the
\* user record of that send followed by one assistant record, whatever was
\* done on the screen in between.
SendAddsUserThenAssistant ==
    ev.op = "sendCompleted" =>
        /\ Len(aiScreen.messages) = ev.lengthBefore + 2
        /\ aiScreen.messages[ev.lengthBefore + 1].isUser
        /\ aiScreen.messages[ev.lengthBefore + 1].id = ev.userId
        /\ ~aiScreen.messages[ev.lengthBefore + 2].isUser

\* C5: every assistant record other than the greeting stands directly after
\* the user record it answers; the transcript never holds a reply whose user
\* turn is gone.
RepliesFollowTheirUserTurn ==
    \A i \in 2..Len(aiScreen.messages) :
        ~aiScreen.messages[i].isUser => aiScreen.messages[i - 1].isUser

\* C6: once Clear chat or New Chat has been confirmed the transcript is the
\* greeting alone, at the confirmation and also after a chat call that was
\* in flight at the confirmation has ended.
ClearLeavesOnlyGreeting ==
    ( \/ ev.op = "confirmClearChat"
      \/ ev.op = "sendCompleted" /\ ev.cleared )
    => /\ Len(aiScreen.messages) = 1
       /\ ~aiScreen.messages[1].isUser
       /\ aiScreen.messages[1].id = 1
       /\ aiScreen.messages[1].text = GreetingText

\* C7: a chat call answered with status 429, 401 or 500 and above ends with
\* the canned reply of that status appended as an assistant record, whatever
\* the response body holds.
CannedReplyByStatus ==
    ( ev.op = "sendCompleted" /\ ev.kind = "http" /\ ~StatusOk(ev.status) )
    => /\ ~LastMessage.isUser
       /\ ev.status = 429 => LastMessage.text = TooManyRequestsReply
       /\ ev.status = 401 => LastMessage.text = AuthReply
       /\ ev.status >= 500 => LastMessage.text = ServiceIssuesReply

\* a call answered 429 has ended and the too-many-requests reply is shown
TooManyRequestsShownWitness ==
    /\ ev.op = "sendCompleted"
    /\ ev.kind = "http"
    /\ ev.status = 429
    /\ ~LastMessage.isUser
    /\ LastMessage.text = TooManyRequestsReply

\* C8: a chat call ended by the timeout aborting it is answered with the
\* canned timeout reply word for word, appended as an assistant record.
AbortShowsTimeoutReply ==
    ( ev.op = "sendCompleted" /\ ev.kind = "abort" )
    => /\ ~LastMessage.isUser
       /\ LastMessage.text = TimeoutReply

\* an aborted call has ended and the timeout reply is shown
AbortedCallWitness ==
    /\ ev.op = "sendCompleted"
    /\ ev.kind = "abort"
    /\ ~LastMessage.isUser
    /\ LastMessage.text =
          "The request took too long to complete. Please try again in a moment."

----------------------------------------------------------------------------
(* Credential forms *)

\* C9 as stated: a sign-in submit after a space was typed into the e-mail or
\* the password field is rejected with the 'cannot contain spaces' alert and
\* issues no signIn.create call.
SpaceTypedIsRejected ==
    ( /\ ev.op = "signInSubmit"
      /\ HasSpace(ev.typedEmail) \/ HasSpace(ev.typedPassword) )
    => /\ signInEnv.createCalls = ev.callsBefore
       /\ signInEnv.call = "idle"
       /\ alert = ShowAlert("Error", "Email and password cannot contain spaces")

\* C9: the sign-in fields never hold a space, whatever is typed into them,
\* so no signIn.create call carries an e-mail or a password with a space;
\* the 'cannot contain spaces' alert is never shown, and a submit after a
\* space was typed calls signIn.create with the text as stored, the spaces
\* removed.
SpacesStrippedBeforeSignIn ==
    /\ ~HasSpace(signInScreen.email)
    /\ ~HasSpace(signInScreen.password)
    /\ ~HasSpace(signInEnv.identifier)
    /\ ~HasSpace(signInEnv.password)
    /\ alert.message # "Email and password cannot contain spaces"
    /\ ( /\ ev.op = "signInSubmit"
         /\ HasSpace(ev.typedEmail) \/ HasSpace(ev.typedPassword) )
       => /\ signInEnv.createCalls = ev.callsBefore + 1
          /\ signInEnv.call = "creating"
          /\ signInEnv.identifier = ev.email
          /\ signInEnv.password = ev.password

\* 'a b@x.c' was typed, the field held 'ab@x.c', and the submit issued the
\* call with it
SpaceTypedThenSubmittedWitness ==
    /\ ev.op = "signInSubmit"
    /\ ev.typedEmail = <<"a", " ", "b", "@", "x", ".", "c">>
    /\ ev.email = <<"a", "b", "@", "x", ".", "c">>
    /\ signInEnv.createCalls = ev.callsBefore + 1
    /\ signInEnv.identifier = <<"a", "b", "@", "x", ".", "c">>

\* C10 as stated: a sign-up submit with a password shorter than 8 characters
\* shows the minimum-length alert and issues neither signUp.create nor
\* prepareEmailAddressVerification, whatever the other fields hold.
ShortPasswordShowsLengthMessage ==
    ( ev.op = "signUpSubmit" /\ Len(ev.password) < 8 )
    => /\ signUpEnv.createCalls = ev.createBefore
       /\ signUpEnv.prepareCalls = ev.prepareBefore
       /\ alert = ShowAlert("Error",
                            "Password must be at least 8 characters long")

\* C10: a tap on Create Account with a password shorter than 8 characters
\* issues neither signUp.create nor prepareEmailAddressVerification,
\* whatever the other fields hold; the alert is the minimum-length one when
\* the e-mail matches the format pattern and the valid-e-mail one when it
\* does not, and with an empty field the button is disabled and the tap
\* shows nothing.
ShortPasswordIssuesNoCall ==
    ( ev.op \in {"signUpSubmit", "signUpPressDisabled"}
      /\ Len(ev.password) < 8 )
    => /\ signUpEnv.createCalls = ev.createBefore
       /\ signUpEnv.prepareCalls = ev.prepareBefore
       /\ signUpEnv.call \notin {"creating", "preparing"}
       /\ ev.op = "signUpSubmit" =>
             /\ signUpEnv.call = "idle"
             /\ alert = ShowAlert("Error",
                          IF EmailRegexTest(ev.email)
                          THEN "Password must be at least 8 characters long"
                          ELSE "Please enter a valid email address")
       /\ ev.op = "signUpPressDisabled" => alert = ev.alertBefore

\* 'short1' was submitted with the other fields filled in and a well-formed
\* e-mail: the minimum-length alert is up and no call was issued
ShortPasswordRejectedWitness ==
    /\ ev.op = "signUpSubmit"
    /\ ev.password = <<"s", "h", "o", "r", "t", "1">>
    /\ EmailRegexTest(ev.email)
    /\ alert.message = "Password must be at least 8 characters long"
    /\ signUpEnv.createCalls = ev.createBefore
    /\ signUpEnv.prepareCalls = ev.prepareBefore

\* C11 as stated: on both forms a submit issues its remote call only when
\* the required fields are filled in, the e-mail and the password hold no
\* whitespace, the e-mail matches the format pattern and the password has
\* at least 8 characters.
CallOnlyAfterFourChecks ==
    LET checked(email, password) ==
            /\ email # <<>> /\ password # <<>>
            /\ \A i \in 1..Len(email) : ~IsSpace(email[i])
            /\ \A i \in 1..Len(password) : ~IsSpace(password[i])
            /\ EmailRegexTest(email)
            /\ Len(password) >= 8
    IN /\ ( ev.op = "signInSubmit"
            /\ signInEnv.createCalls = ev.callsBefore + 1 )
          => checked(ev.email, ev.password)
       /\ ( ev.op = "signUpSubmit"
            /\ signUpEnv.createCalls = ev.createBefore + 1 )
          => /\ checked(ev.email, ev.password)
             /\ ev.firstName # <<>> /\ ev.lastName # <<>>

\* C11: a tap on Create Account issues signUp.create exactly when all four
\* fields are filled in, the e-mail matches the format pattern and the
\* password has at least 8 characters; a tap on Sign In issues signIn.create
\* exactly when the e-mail and the password are filled in, whatever their
\* format and length; on both forms the values submitted hold no whitespace
\* and the handler runs only from an enabled button, with every field filled
\* in.
SignUpChecksFourSignInTwo ==
    LET blankFree(t) == \A i \in 1..Len(t) : ~IsSpace(t[i])
    IN /\ ev.op = "signInSubmit" => ev.email # <<>> /\ ev.password # <<>>
       /\ ev.op = "signUpSubmit" =>
             /\ ev.firstName # <<>> /\ ev.lastName # <<>>
             /\ ev.email # <<>> /\ ev.password # <<>>
       /\ ev.op \in {"signUpSubmit", "signUpPressDisabled"} =>
             /\ blankFree(ev.email) /\ blankFree(ev.password)
             /\ signUpEnv.createCalls = ev.createBefore + 1
                <=> /\ ev.op = "signUpSubmit"
                    /\ ev.firstName # <<>> /\ ev.lastName # <<>>
                    /\ ev.email # <<>> /\ ev.password # <<>>
                    /\ EmailRegexTest(ev.email)
                    /\ Len(ev.password) >= 8
             /\ signUpEnv.createCalls \in {ev.createBefore, ev.createBefore + 1}
       /\ ev.op \in {"signInSubmit", "signInPressDisabled"} =>
             /\ blankFree(ev.email) /\ blankFree(ev.password)
             /\ signInEnv.createCalls = ev.callsBefore + 1
                <=> /\ ev.op = "signInSubmit"
                    /\ ev.email # <<>> /\ ev.password # <<>>
             /\ signInEnv.createCalls \in {ev.callsBefore, ev.callsBefore + 1}

\* Sign In was tapped with an e-mail that has no domain suffix and a password
\* of three characters, and signIn.create was called with them
MalformedSignInSubmittedWitness ==
    /\ ev.op = "signInSubmit"
    /\ ev.email = <<"a", "b", "@", "x">>
    /\ ev.password = <<"p", "w", "1">>
    /\ signInEnv.createCalls = ev.callsBefore + 1
    /\ signInEnv.call = "creating"
    /\ signInEnv.identifier = <<"a", "b", "@", "x">>

\* C12: the route becomes '/(tabs)' only in the step in which setActive of a
\* credential sign-in or of an OAuth flow of either form resolves, or by the
\* 'Get Started' button of the alert that only a resolved setActive of the
\* verification puts up; and setActive is called only in the step in which
\* the provider call before it resolves as complete (signIn.create,
\* attemptEmailAddressVerification) or with a created session
\* (startOAuthFlow).
TabsOnlyAfterActivation ==
    [][ /\ ( route' = "/(tabs)" /\ route # "/(tabs)" ) =>
             \/ /\ ev'.op = "callSettled"
                /\ ev'.flow \in {"signIn", "signInOAuth", "signUpOAuth"}
                /\ ev'.call = "setActive"
                /\ ev'.how = "resolved"
             \/ /\ ev'.op = "pressGetStarted"
                /\ alert.title = "Success!"
        /\ ( alert'.title = "Success!" /\ alert.title # "Success!" ) =>
             ev' = CallEvent("verify", "setActive", "resolved", "", "")
        /\ ( \/ signInEnv'.activateCalls > signInEnv.activateCalls
             \/ signUpEnv'.activateCalls > signUpEnv.activateCalls
             \/ verifyEnv'.activating > verifyEnv.activating ) =>
             /\ ev'.op = "callSettled"
             /\ ev'.how = "resolved"
             /\ \/ /\ ev'.call \in {"create",
                                    "attemptEmailAddressVerification"}
                   /\ ev'.status = "complete"
                \/ /\ ev'.call = "startOAuthFlow"
                   /\ ev'.status = "session"
      ]_vars

\* the verification was activated and 'Get Started' led to the tabs
TabsAfterVerificationWitness ==
    /\ ev.op = "pressGetStarted"
    /\ route = "/(tabs)"
    /\ verifyScreen.verificationStatus = "verified"
    /\ verifyEnv.attemptCalls > 0

\* C13: when startOAuthFlow of a Google or Microsoft button of either form
\* rejects because the user cancelled the flow, the step shows no alert,
\* calls no setActive, leaves the route alone and clears the loading flag of
\* the form.
OAuthCancelIsSilent ==
    [][ ( /\ ev'.op = "callSettled"
          /\ ev'.flow \in {"signInOAuth", "signUpOAuth"}
          /\ ev'.call = "startOAuthFlow"
          /\ ev'.how = "rejected"
          /\ ev'.message \in OAuthCancelMessages ) =>
             /\ alert = NoAlert /\ alert' = NoAlert
             /\ route' = route
             /\ signInEnv'.activateCalls = signInEnv.activateCalls
             /\ signUpEnv'.activateCalls = signUpEnv.activateCalls
             /\ ev'.flow = "signInOAuth" =>
                   /\ signInScreen.isLoading /\ ~signInScreen'.isLoading
                   /\ signInEnv'.call = "idle"
             /\ ev'.flow = "signUpOAuth" =>
                   /\ signUpScreen.isLoading /\ ~signUpScreen'.isLoading
                   /\ signUpEnv'.call = "idle"
      ]_vars

\* the Microsoft flow of the sign-in form was cancelled by the user
OAuthCancelledWitness ==
    /\ ev = CallEvent("signInOAuth", "startOAuthFlow", "rejected", "",
                      "user_cancelled")
    /\ signInEnv.provider = "Microsoft"
    /\ signInEnv.oauthCalls = 1
    /\ ~signInScreen.isLoading
    /\ alert = NoAlert

\* C14: on the sign-up form prepareEmailAddressVerification is called only
\* in the step in which signUp.create resolves; the verification screen is
\* pushed only from the alert that a resolved
\* prepareEmailAddressVerification puts up, with the trimmed e-mail of the
\* submit as its parameter; a rejection of either call pushes nothing and
\* shows the failure alert.
SignUpCallsInOrder ==
    [][ /\ signUpEnv'.prepareCalls > signUpEnv.prepareCalls =>
             /\ ev' = CallEvent("signUp", "create", "resolved", "", "")
             /\ signUpEnv.call = "creating"
             /\ signUpEnv'.prepareCalls = signUpEnv.prepareCalls + 1
        /\ ( alert'.title = "Verification Email Sent!"
             /\ alert.title # "Verification Email Sent!" ) =>
             /\ ev' = CallEvent("signUp", "prepareEmailAddressVerification",
                                "resolved", "", "")
             /\ signUpEnv.call = "preparing"
        /\ ( ev'.op = "signUpSubmit"
             /\ signUpEnv'.createCalls > signUpEnv.createCalls ) =>
             signUpEnv'.emailAddress = Trim(ev'.email)
        /\ signUpEnv'.emailAddress # signUpEnv.emailAddress =>
             ev'.op = "signUpSubmit"
        /\ ( signUpEnv'.pushed /\ ~signUpEnv.pushed ) =>
             /\ alert.title = "Verification Email Sent!"
             /\ route' = "/verify-email"
             /\ signUpEnv'.pushedEmail = signUpEnv.emailAddress
             /\ signUpEnv.prepareCalls > 0
        /\ ( ev'.op = "callSettled" /\ ev'.flow = "signUp"
             /\ ev'.how = "rejected" ) =>
             /\ signUpEnv'.pushed = signUpEnv.pushed
             /\ signUpEnv'.prepareCalls = signUpEnv.prepareCalls
             /\ alert'.title = "Sign Up Failed"
      ]_vars

\* both calls succeeded and the verification screen was pushed with the
\* e-mail of the form
VerificationScreenPushedWitness ==
    /\ ev.op = "pushVerifyEmail"
    /\ signUpEnv.pushed
    /\ signUpEnv.pushedEmail = <<"a", "b", "@", "x", ".", "c">>
    /\ signUpEnv.createCalls = 1
    /\ signUpEnv.prepareCalls = 1
    /\ route = "/verify-email"

----------------------------------------------------------------------------
(* Calls in flight                                                         *)

\* C15: of each kind of action at most one remote call is outstanding, and
\* no handler issues a call while one of its kind is outstanding: one
\* verification (attempt, then activation), one resend, one chat call, one
\* sign-in and one sign-up call (credential or OAuth), one signOut.
OneCallPerActionType ==
    /\ verifyEnv.attempting + verifyEnv.activating <= 1
    /\ verifyEnv.resending <= 1
    /\ aiEnv.fetch.state = "pending" => aiScreen.isLoading
    /\ signInEnv.call # "idle" => signInScreen.isLoading
    /\ signUpEnv.call # "idle" => signUpScreen.isLoading
    /\ profileEnv.handled + profileEnv.bare <= 1
    /\ ev.op \in {"handleSignOut", "acknowledgeDeletion"} =>
          ev.outstandingBefore = 0

\* C16: a loading flag is up only while a remote call of its handler is
\* outstanding: isLoading of the sign-in form, of the sign-up form, of the
\* verification screen and of the chat, and isResending; so every way a
\* call ends (success, failure alert, exception, cancelled OAuth flow) has
\* cleared the flag.
LoadingOnlyWhileCallOutstanding ==
    /\ signInScreen.isLoading => signInEnv.call # "idle"
    /\ signUpScreen.isLoading => signUpEnv.call # "idle"
    /\ verifyScreen.isLoading =>
          verifyEnv.attempting + verifyEnv.activating > 0
    /\ verifyScreen.isResending => verifyEnv.resending > 0
    /\ aiScreen.isLoading => aiEnv.fetch.state = "pending"
    /\ ev.op = "callSettled" =>
          CASE ev.flow \in {"signIn", "signInOAuth"} ->
                  signInScreen.isLoading = (signInEnv.call # "idle")
            [] ev.flow \in {"signUp", "signUpOAuth"} ->
                  signUpScreen.isLoading = (signUpEnv.call # "idle")
            [] ev.flow = "verify" ->
                  verifyScreen.isLoading =
                     (verifyEnv.attempting + verifyEnv.activating > 0)
            [] ev.flow = "resend" ->
                  verifyScreen.isResending = (verifyEnv.resending > 0)
            [] OTHER -> TRUE

\* the Google flow of the sign-up form was cancelled and the form is usable
\* again
CancelledSignUpClearsLoadingWitness ==
    /\ ev = CallEvent("signUpOAuth", "startOAuthFlow", "rejected", "",
                      "The OAuth flow was cancelled")
    /\ signUpEnv.provider = "Google"
    /\ signUpEnv.call = "idle"
    /\ ~signUpScreen.isLoading

\* C17: every provider call of the sign-in, sign-up, verify-email and
\* profile screens that fails (it rejects, or it resolves with a status
\* other than complete or without a session) leaves an alert on the screen,
\* unless it is an OAuth flow the user cancelled; a signOut started from the
\* deletion alert included.
FailedCallShowsAlert ==
    ( /\ ev.op = "callSettled"
      /\ \/ ev.how = "rejected"
         \/ ev.how = "resolved" /\ ev.status \notin {"", "complete", "session"}
      /\ ~ ( /\ ev.flow \in {"signInOAuth", "signUpOAuth"}
             /\ ev.message \in OAuthCancelMessages ) )
    => alert # NoAlert

----------------------------------------------------------------------------
(* Account deletion                                                        *)

\* C18: the Delete button of the confirmation calls nothing remote: it puts
\* up the 'Account Deletion Initiated' alert and starts closing the
\* overlays; signOut is called for a deletion only by the OK button of that
\* alert; the Cancel button of the confirmation only hides the confirmation.
DeletionSignsOutOnlyAfterOk ==
    [][ /\ ev'.op = "confirmDeleteAccount" =>
             /\ profileEnv'.signOutCalls = profileEnv.signOutCalls
             /\ profileEnv'.bare = profileEnv.bare
             /\ profileEnv'.handled = profileEnv.handled
             /\ alert'.title = "Account Deletion Initiated"
             /\ profileEnv'.closing
             /\ profileEnv'.isSignedIn
             /\ route' = route
        /\ ( alert'.title = "Account Deletion Initiated"
             /\ alert.title # "Account Deletion Initiated" ) =>
             /\ ev'.op = "confirmDeleteAccount"
             /\ profileScreen.deleteAccountVisible
        /\ profileEnv'.bare > profileEnv.bare =>
             /\ ev'.op = "acknowledgeDeletion"
             /\ alert.title = "Account Deletion Initiated"
             /\ profileEnv'.signOutCalls = profileEnv.signOutCalls + 1
        /\ profileEnv'.signOutCalls > profileEnv.signOutCalls =>
             ev'.op \in {"handleSignOut", "acknowledgeDeletion"}
        /\ ev'.op = "cancelDeleteAccount" =>
             /\ profileEnv' = profileEnv
             /\ alert' = alert
             /\ route' = route
             /\ ~profileScreen'.deleteAccountVisible
      ]_vars

\* the deletion was confirmed, the alert acknowledged, and only then signOut
\* was called
SignOutAfterAcknowledgementWitness ==
    /\ ev.op = "acknowledgeDeletion"
    /\ ev.callsBefore = 0
    /\ ev.alertBefore.title = "Account Deletion Initiated"
    /\ profileEnv.signOutCalls = 1
    /\ profileEnv.bare = 1
    /\ alert = NoAlert

----------------------------------------------------------------------------
(* Verification status                                                     *)

\* C19: verificationStatus is 'pending' when the screen mounts; every change
\* of the text of the code field sets it to 'pending', and nothing else
\* does; whenever a call of handleVerify settles it is 'verified' or
\* 'failed'; a press that handleVerify rejects before its remote call, or
\* that the disabled button drops, leaves it as it was.
StatusFollowsKeystrokesAndAttempts ==
    /\ verifyScreen.verificationStatus = "pending"
    /\ [][ /\ typed'.code # typed.code =>
                verifyScreen'.verificationStatus = "pending"
           /\ ( verifyScreen'.verificationStatus = "pending"
                /\ verifyScreen.verificationStatus # "pending" ) =>
                /\ verifyScreen'.code = CodeFilter(typed'.code)
                /\ verifyEnv' = verifyEnv
                /\ ev' = NoEvent
           /\ ( ev'.op = "callSettled" /\ ev'.flow = "verify" ) =>
                verifyScreen'.verificationStatus \in {"verified", "failed"}
           /\ ( ev'.op = "handleVerify"
                /\ verifyEnv'.attemptCalls = verifyEnv.attemptCalls ) =>
                /\ verifyScreen'.verificationStatus =
                      verifyScreen.verificationStatus
                /\ alert'.title = "Error"
           /\ ( ev'.op = "handleVerify"
                /\ verifyEnv'.attemptCalls > verifyEnv.attemptCalls ) =>
                /\ verifyScreen'.verificationStatus =
                      verifyScreen.verificationStatus
                /\ verifyScreen'.isLoading
           /\ ev'.op = "pressVerifyDisabled" =>
                verifyScreen' = verifyScreen
         ]_vars

\* an attempt has failed and a keystroke has put the status back to pending
KeystrokeAfterFailureWitness ==
    /\ verifyScreen.verificationStatus = "pending"
    /\ verifyEnv.attemptCalls = 1
    /\ verifyEnv.attempting + verifyEnv.activating = 0
    /\ alert = NoAlert
    /\ verifyScreen.code # <<>>
    /\ ev = NoEvent

\* C20: when handleVerify finishes, the status is 'verified' exactly when
\* attemptEmailAddressVerification resolved as complete with a session and
\* setActive resolved; every other end (another status, no session, a
\* rejection of either call) leaves 'failed', the failure alert and the
\* route as it was.
VerifiedIffActivated ==
    [][ ( ev'.op = "callSettled" /\ ev'.flow = "verify" ) =>
          /\ verifyEnv'.activating > verifyEnv.activating <=>
                /\ ev'.call = "attemptEmailAddressVerification"
                /\ ev'.how = "resolved"
                /\ ev'.status = "complete"
          /\ verifyEnv'.activating <= verifyEnv.activating =>
                /\ ~verifyScreen'.isLoading
                /\ verifyScreen'.verificationStatus = "verified" <=>
                      /\ ev'.call = "setActive"
                      /\ ev'.how = "resolved"
                /\ verifyScreen'.verificationStatus = "verified" =>
                      alert'.title = "Success!"
                /\ verifyScreen'.verificationStatus # "verified" =>
                      /\ verifyScreen'.verificationStatus = "failed"
                      /\ alert'.title = "Verification Failed"
                      /\ route' = route
      ]_vars

\* the code was accepted as complete, but the activation of the session
\* was rejected
ActivationRejectedWitness ==
    /\ ev.op = "callSettled"
    /\ ev.flow = "verify"
    /\ ev.call = "setActive"
    /\ ev.how = "rejected"
    /\ verifyScreen.verificationStatus = "failed"
    /\ clerk.signUpStatus = "complete"
    /\ route # "/(tabs)"

----------------------------------------------------------------------------
(* Error texts                                                             *)

\* C21: when a call of handleVerify rejects with a provider error, the text
\* of the 'Verification Failed' alert is fixed by the code of its first
\* entry (incorrect, expired, failed, already registered), whatever messages
\* the entry carries; for any other code it is the entry's long message,
\* else its message, else the default text; for a plain Error it is the
\* Error's message, replaced by the already-verified or the expired text
\* when the message contains 'already verified' or 'expired'.
VerifyAlertFollowsErrorCode ==
    ( /\ ev.op = "callSettled"
      /\ ev.flow = "verify"
      /\ ev.how = "rejected" ) =>
    LET err == ev.err
        default ==
           "Failed to verify email. Please check the code and try again."
    IN /\ alert.title = "Verification Failed"
       /\ err.kind = "clerk" =>
          /\ err.empty => alert.message = default
          /\ err.code = "form_code_incorrect" => alert.message =
                "The verification code is incorrect. Please check and try again."
          /\ err.code = "form_code_expired" => alert.message =
                "The verification code has expired. Please request a new one."
          /\ err.code = "verification_failed" => alert.message =
                "Verification failed. The code may be invalid or expired."
          /\ err.code = "form_identifier_exists" => alert.message =
                "This email is already registered. Please sign in instead."
          /\ ( ~err.empty /\ err.code \in {"session_exists", ""} ) =>
                alert.message =
                   IF err.longMessage # "" THEN err.longMessage
                   ELSE IF err.message # "" THEN err.message
                   ELSE default
       /\ err.kind = "error" =>
             alert.message =
                IF err.message = "Email is already verified"
                THEN "This email is already verified. Please sign in instead."
                ELSE IF err.message = "Code has expired"
                THEN "The verification code has expired. Please request a new one."
                ELSE err.message

\* the provider rejected the code as expired and sent its own long message
\* along; the alert shows the text of the table
ExpiredCodeRejectedWitness ==
    /\ ev.op = "callSettled"
    /\ ev.flow = "verify"
    /\ ev.call = "attemptEmailAddressVerification"
    /\ ev.how = "rejected"
    /\ ev.err.kind = "clerk"
    /\ ev.err.code = "form_code_expired"
    /\ ev.err.longMessage = "provider long message"
    /\ alert.message =
          "The verification code has expired. Please request a new one."

----------------------------------------------------------------------------
(* Chat replies                                                            *)

\* C22: an error thrown by the chat call is answered by its class: the
\* timeout reply for an AbortError or a text with 'timeout' or 'abort', the
\* network reply for a text with 'Network request failed', the fetch-failure
\* reply for a text with 'Failed to fetch', and the generic apology for any
\* other error; the three class replies differ from each other.
ThrownErrorAnsweredByClass ==
    ( ev.op = "fetchReturned" /\ ev.outcome.kind \in {"reject", "abort"} ) =>
    LET err == ev.outcome.err
        timedOut == \/ err.name = "AbortError"
                    \/ ErrIncludes(err, StrTimeout)
                    \/ ErrIncludes(err, StrAbort)
        network == ~timedOut /\ ErrIncludes(err, StrNetworkRequestFailed)
        fetchFailed == /\ ~timedOut /\ ~network
                       /\ ErrIncludes(err, StrFailedToFetch)
    IN /\ timedOut => LastMessage.text = TimeoutReply
       /\ network => LastMessage.text = NetworkReply
       /\ fetchFailed => LastMessage.text = FetchFailedReply
       /\ ~(timedOut \/ network \/ fetchFailed) =>
             LastMessage.text = ApologyReply
       /\ TimeoutReply # NetworkReply
       /\ NetworkReply # FetchFailedReply
       /\ TimeoutReply # FetchFailedReply

\* C23: the reply to a success response is the value of the first field
\* present in the body, in the order reply, message, output,
\* choices[0].text, choices[0].message.content, response, whatever fields
\* come after it.
FirstPresentFieldIsReply ==
    ( /\ ev.op = "fetchReturned"
      /\ ev.outcome.kind = "http"
      /\ StatusOk(ev.outcome.status)
      /\ ev.outcome.body.kind = "object" ) =>
    LET data == ev.outcome.body
        fields == <<data.reply, data.message, data.output, data.choiceText,
                    data.choiceContent, data.response>>
        present == {i \in 1..6 : fields[i] # ""}
    IN present # {} =>
          \E i \in present :
             /\ \A j \in present : i <= j
             /\ LastMessage.text = fields[i]

OtherErrorStatusGetsApology ==
    ( /\ ev.op = "fetchReturned"
      /\ ev.outcome.kind = "http"
      /\ ~StatusOk(ev.outcome.status)
      /\ ev.outcome.status \notin {401, 429}
      /\ ev.outcome.status < 500 ) =>
    /\ ~LastMessage.isUser
    /\ LastMessage.text = ApologyReply

\* C26: an accepted send appends the user record holding the trimmed input
\* in the same step in which the chat call is issued, issues exactly one
\* call, with the trimmed input as its prompt, and no other step issues or
\* re-issues a call.
AcceptedSendPostsTrimmedOnce ==
    [][ /\ ev'.op = "sendAccepted" =>
            /\ Trim(aiScreen.inputText) # <<>>
            /\ ~aiScreen.isLoading
            /\ Len(aiScreen'.messages) = Len(aiScreen.messages) + 1
            /\ SubSeq(aiScreen'.messages, 1, Len(aiScreen.messages))
                  = aiScreen.messages
            /\ LastMessage'.isUser
            /\ LastMessage'.text = Trim(aiScreen.inputText)
            /\ Head(LastMessage'.text) # " "
            /\ LastMessage'.text[Len(LastMessage'.text)] # " "
            /\ aiEnv.fetch.state = "idle"
            /\ aiEnv'.fetch.state = "pending"
            /\ aiEnv'.fetch.prompt = LastMessage'.text
            /\ aiEnv'.posts = aiEnv.posts + 1
        /\ ev'.op # "sendAccepted" =>
            /\ aiEnv'.posts = aiEnv.posts
            /\ aiEnv'.fetch.state = "pending" =>
                  /\ aiEnv.fetch.state = "pending"
                  /\ aiEnv'.fetch.prompt = aiEnv.fetch.prompt ]_vars

\* ' hi ' was typed and sent: the call carries 'hi'
PaddedInputSentWitness ==
    /\ ev.op = "sendAccepted"
    /\ ev.inputText = <<" ", "h", "i", " ">>
    /\ aiEnv.fetch.state = "pending"
    /\ aiEnv.fetch.prompt = <<"h", "i">>
    /\ aiEnv.posts = 1

\* C30: a send with empty or blank input, or while a send is in flight,
\* changes nothing: the transcript, the input text and the loading flag stay
\* as they were and no chat call is issued.
RejectedSendIsNoOp ==
    [][ ( /\ ev'.op \in {"sendIgnored", "sendAccepted"}
          /\ \/ \A i \in 1..Len(aiScreen.inputText) :
                   aiScreen.inputText[i] = " "
             \/ aiScreen.isLoading ) =>
        /\ ev'.op = "sendIgnored"
        /\ aiScreen'.messages = aiScreen.messages
        /\ aiScreen'.inputText = aiScreen.inputText
        /\ aiScreen'.isLoading = aiScreen.isLoading
        /\ aiEnv'.posts = aiEnv.posts
        /\ aiEnv'.fetch = aiEnv.fetch ]_vars

\* a send pressed with a blank in the input before any call was made
BlankSendIgnoredWitness ==
    /\ ev.op = "sendIgnored"
    /\ ev.inputText = <<" ">>
    /\ ~ev.isLoading
    /\ aiScreen.inputText = <<" ">>
    /\ aiEnv.posts = 0

\* a send pressed while the call of an earlier send is outstanding
SendWhileLoadingIgnoredWitness ==
    /\ ev.op = "sendIgnored"
    /\ ev.isLoading
    /\ aiScreen.isLoading
    /\ aiEnv.fetch.state = "pending"
    /\ aiEnv.posts = 1

\* C28: all message records of the transcript have pairwise different
\* identifiers.
MessageIdsDiffer ==
    \A i, j \in 1..Len(aiScreen.messages) :
       i # j => aiScreen.messages[i].id # aiScreen.messages[j].id

\* C29: the tab layout shows only the loading indicator while the provider
\* is not loaded, redirects to '/sign-in' when it is loaded without a
\* signed-in user, and renders the tabs otherwise; the handlers of the
\* profile tab run, and its sheet and confirmation are opened or closed by a
\* touch, only while the provider is loaded and reports a signed-in user.
TabsOnlyWhenLoadedAndSignedIn ==
    /\ [](~clerk.isLoaded => TabLayout = "ActivityIndicator")
    /\ []((clerk.isLoaded /\ ~profileEnv.isSignedIn) =>
             (TabLayout = "Redirect" /\ route = "/sign-in"))
    /\ [](TabLayout = "Tabs" <=> (clerk.isLoaded /\ profileEnv.isSignedIn))
    /\ [][ ( \/ ev'.op \in {"handleSignOut", "cancelDeleteAccount",
                            "confirmDeleteAccount"}
             \/ /\ profileScreen' # profileScreen
                /\ ~profileEnv.closing ) =>
           (clerk.isLoaded /\ profileEnv.isSignedIn) ]_vars

\* Sign Out was pressed and the call resolved: the layout redirects
SignedOutRedirectsWitness ==
    /\ ev.op = "callSettled"
    /\ ev.call = "signOut"
    /\ ev.how = "resolved"
    /\ clerk.isLoaded
    /\ ~profileEnv.isSignedIn
    /\ TabLayout = "Redirect"
    /\ route = "/sign-in"

TimeoutOnlyAbortsAwaitedFetch ==
    /\ aiEnv.timer => aiEnv.fetch.state = "pending"
    /\ ev.op = "timeoutFired" => ev.fetchState = "pending"

====
